---- MODULE Spec2Model ----
(***************************************************************************)
(* A model of the Surf micro-framework core: Cell (state store), Signal    *)
(* (bindings and event listeners), Echo (state preservation around a DOM   *)
(* mutation), Surface (DOM region replacement) and Pulse (requests).       *)
(*                                                                         *)
(* The DOM is a fixed universe of elements; an element that is removed     *)
(* from the document is destroyed, and an element that is inserted is a    *)
(* newly created one (no WeakMap entry, no listeners, empty text).         *)
(***************************************************************************)
EXTENDS Integers, Sequences, FiniteSets, TLC

(***************************************************************************)
(* Bounds                                                                  *)
(***************************************************************************)
MaxCount == 2

(***************************************************************************)
(* JavaScript values held in a Cell state, tagged with their type.         *)
(***************************************************************************)
Num(n) == [t |-> "number", v |-> n, s |-> ""]
Undefined == [t |-> "undefined", v |-> 0, s |-> ""]
Str(str) == [t |-> "string", v |-> 0, s |-> str]
Bool(b) == [t |-> "boolean", v |-> IF b THEN 1 ELSE 0, s |-> ""]
\* The number NaN
NaN == [t |-> "number", v |-> 0, s |-> "NaN"]
\* An object value: o is the function from its own keys to their values.
Obj(fields) == [t |-> "object", v |-> 0, s |-> "", o |-> fields]

\* A state object: a function from its own keys to values.
EmptyState == [k \in {} |-> Undefined]

\* { ...a, ...b }
Spread(a, b) ==
  [k \in (DOMAIN a) \cup (DOMAIN b) |-> IF k \in DOMAIN b THEN b[k] ELSE a[k]]

\* Map / WeakMap entries: has(x) and get(x)
None == [has |-> FALSE, v |-> EmptyState]
Some(st) == [has |-> TRUE, v |-> st]

\* String(value), for the values the model holds
JsString(val) == IF val = NaN THEN "NaN"
                 ELSE IF val.t = "number" THEN ToString(val.v)
                 ELSE IF val.t = "string" THEN val.s
                 ELSE IF val.t = "boolean"
                 THEN (IF val.v = 1 THEN "true" ELSE "false")
                 ELSE IF val.t = "object" THEN "[object Object]"
                 ELSE val.t

(***************************************************************************)
(* The document                                                            *)
(***************************************************************************)
NoAttr == "<no attribute>"
Doc == "document"

\* Elements in the order of the markup that holds them.  Fragment A is a keyed cell with a button
\* and a bound span; B is a cell with the same key (as its id) and another
\* seed; N is a cell without a key; S is the content of region side; O is
\* an outer cell with a nested inner cell, both binding the expression
\* "count".  pA (inside cell cA) and pS (inside no cell) are buttons that
\* trigger an action pulse.  U is a cell whose seed holds nested objects,
\* with buttons that assign to dotted paths.  fR and fT are forms that
\* commit on submit and reset themselves on submit; bR is a button of fR,
\* of type button, that resets it on click.  M is a cell whose buttons
\* clamp its counter from above (bMa, bMb) and from below (bXa, bXb) and
\* assign a number to it (bMs).
DocOrder == << "main", "cA", "bA", "tA", "pA", "cB", "bB", "cN", "bN",
               "cO", "bO", "tO", "cI", "tI",
               "cU", "bUs", "bUw", "bUf", "bUp",
               "fR", "bR", "fT",
               "cM", "bMa", "bMb", "bXa", "bXb", "bMs",
               "side", "cS", "bS", "pS" >>
Elems == { DocOrder[i] : i \in 1..Len(DocOrder) }

Parent == [ main |-> Doc, side |-> Doc,
            cA |-> "main", bA |-> "cA", tA |-> "cA", pA |-> "cA",
            cB |-> "main", bB |-> "cB",
            cN |-> "main", bN |-> "cN",
            cO |-> "main", bO |-> "cO", tO |-> "cO", cI |-> "cO", tI |-> "cI",
            cU |-> "main", bUs |-> "cU", bUw |-> "cU", bUf |-> "cU",
            bUp |-> "cU",
            fR |-> "main", bR |-> "fR", fT |-> "main",
            cM |-> "main", bMa |-> "cM", bMb |-> "cM", bXa |-> "cM",
            bXb |-> "cM", bMs |-> "cM",
            cS |-> "side", bS |-> "cS", pS |-> "side" ]

\* d-cell attribute (the seed text) of each element
CellAttr == [ e \in Elems |->
  CASE e = "cA" -> "count: 0"
    [] e = "cB" -> "count: 1"
    [] e = "cN" -> "count: 0"
    [] e = "cO" -> "count: 0"
    [] e = "cI" -> "count: 2"
    [] e = "cS" -> "count: 1"
    [] e = "cM" -> "count: 0"
    [] e = "cU" -> "a: 1, b: 1, user: { name: 'test', score: 0, stats: { wins: 0, level: 1 } }"
    [] OTHER -> NoAttr ]

\* d-id attribute
DIdAttr == [ e \in Elems |->
  CASE e = "cA" -> "k"
    [] e = "cO" -> "o"
    [] e = "cI" -> "in"
    [] e = "cS" -> "s"
    [] OTHER -> NoAttr ]

\* id attribute
IdAttr == [ e \in Elems |->
  CASE e = "main" -> "main"
    [] e = "side" -> "side"
    [] e = "cB" -> "k"
    [] OTHER -> NoAttr ]

\* d-auto-refresh attribute: the cells A and S poll every 1000 ms and
\* every 2000 ms; the cell B carries the attribute without a number
AutoRefreshAttr == [ e \in Elems |->
  CASE e = "cA" -> "1000"
    [] e = "cS" -> "2000"
    [] e = "cB" -> ""
    [] OTHER -> NoAttr ]

\* d-text attribute
TextAttr == [ e \in Elems |->
  IF e \in {"tA", "tO", "tI"} THEN "count" ELSE NoAttr ]

\* d-signal attribute of a newly created element
SignalAttrInit == [ e \in Elems |->
  CASE e \in {"bA", "bB", "bN", "bO", "bS"} -> "click: count = count + 1"
    [] e = "bUs" -> "click: user.score = user.score + 1"
    [] e = "bUw" -> "click: user.stats.wins = user.stats.wins + 1"
    [] e = "bUf" -> "click: user.name.first = 1"
    [] e = "bUp" -> "click: profile.age = 1"
    [] e = "fR" -> "submit: reset"
    [] e = "bR" -> "click: reset"
    [] e = "fT" -> "submit: this.reset()"
    [] e = "bMa" -> "click: count = Math.min(count + 10, 5)"
    [] e = "bMb" -> "click: count = Math.min(count + 1, 2)"
    [] e = "bXa" -> "click: count = Math.max(count - 20, 0)"
    [] e = "bXb" -> "click: count = Math.max(count - 1, 1)"
    [] e = "bMs" -> "click: count = 2"
    [] OTHER -> NoAttr ]

Keys == {"k", "o", "in", "s"}

\* d-pulse, d-action and d-target attributes
PulseAttr == [ e \in Elems |->
  CASE e \in {"pA", "pS"} -> "action"
    [] e \in {"fR", "fT"} -> "commit"
    [] OTHER -> NoAttr ]
ActionAttr == [ e \in Elems |-> IF e \in {"pA", "pS"} THEN "/api" ELSE NoAttr ]
TargetAttr == [ e \in Elems |->
  CASE e = "pA" -> "#main"
    [] e \in {"fR", "fT"} -> "#gone"
    [] e = "pS" -> "#gone"
    [] OTHER -> NoAttr ]

\* The data-* attributes of each element, by the name after "data-"
DataAttrs == [ e \in Elems |->
  CASE e = "pA" -> [count |-> Str("5"), role |-> Str("admin")]
    [] e = "pS" -> [role |-> Str("guest")]
    [] OTHER -> EmptyState ]

\* HTML fragments a server can send for a region, and the elements they
\* parse into.
ContentElems(html) ==
  CASE html = "A" -> {"cA", "bA", "tA", "pA"}
    [] html = "B" -> {"cB", "bB"}
    [] html = "N" -> {"cN", "bN"}
    [] html = "O" -> {"cO", "bO", "tO", "cI", "tI"}
    [] html = "S" -> {"cS", "bS", "pS"}
    [] html = "U" -> {"cU", "bUs", "bUw", "bUf", "bUp"}
    [] html = "F" -> {"fR", "bR", "fT"}
    [] html = "M" -> {"cM", "bMa", "bMb", "bXa", "bXb", "bMs"}
    [] OTHER -> {}

\* The fragments that can be inserted into each region.
ContentsFor(surface) ==
  CASE surface = "main" -> {"A", "B", "N", ""}
    [] surface = "side" -> {"S", ""}
    [] OTHER -> {}

Surfaces == {"main", "side"}

RECURSIVE IsAncestor(_, _)
\* a is a proper ancestor of e
IsAncestor(a, e) ==
  IF e = Doc THEN FALSE
  ELSE IF Parent[e] = a THEN TRUE
  ELSE IsAncestor(a, Parent[e])


\* tagName of the form elements, the method attribute of each form as the
\* property form.method gives it, its action, and the default value of
\* its one field, named msg
IsForm(e) == e \in {"fR", "fT"}
FormMethod == [ e \in Elems |->
  CASE e = "fR" -> "get" [] e = "fT" -> "post" [] OTHER -> NoAttr ]
FormAction == [ e \in Elems |-> IF IsForm(e) THEN "/save" ELSE NoAttr ]
DefaultValue == ""

\* d-swap attribute: region side asks for its own replacement
SwapAttr == [ e \in Elems |-> IF e = "side" THEN "outer" ELSE NoAttr ]

\* d-show and d-attr attributes
\* (the cell N carries both on its own root element)
ShowAttr == [ e \in Elems |->
  IF e \in {"tA", "tO", "tI", "cN"} THEN "count" ELSE NoAttr ]
AttrAttr == [ e \in Elems |->
  IF e \in {"tA", "tO", "tI", "cN"} THEN "title:count" ELSE NoAttr ]

(***************************************************************************)
(* The world: the document plus the module-level tables of cell.js and     *)
(* signal.js.  Every operation below maps a world to a world.              *)
(*   inDom           elements attached to the document                     *)
(*   order           the attached elements in document order               *)
(*   sigAttr         current d-signal attribute of each element            *)
(*   cellStates      cell.js cellStates (WeakMap element -> state)         *)
(*   cellIdStates    cell.js cellIdStates (Map id -> state)                *)
(*   boundListeners  signal.js boundListeners (WeakMap element -> list)    *)
(*   listeners       listeners registered on each element by               *)
(*                   addEventListener, in registration order               *)
(*   text, display, title   textContent, style.display, title attribute    *)
(*   emitted         Events.emit calls made by the current operation       *)
(*   timers          callbacks handed to setTimeout(..., 0) that have not  *)
(*                   run yet, oldest first                                 *)
(*   values          the value of the field of each form                   *)
(***************************************************************************)
NoListeners == [has |-> FALSE, v |-> << >>]

FreshWorld ==
  [ inDom |-> {},
    order |-> << >>,
    sigAttr |-> SignalAttrInit,
    cellStates |-> [e \in Elems |-> None],
    cellIdStates |-> [k \in Keys |-> None],
    boundListeners |-> [e \in Elems |-> NoListeners],
    listeners |-> [e \in Elems |-> << >>],
    text |-> [e \in Elems |-> ""],
    display |-> [e \in Elems |-> ""],
    title |-> [e \in Elems |-> NoAttr],
    emitted |-> << >>,
    timers |-> << >>,
    values |-> [e \in Elems |-> DefaultValue] ]

Emit(w, name, el) == [w EXCEPT !.emitted = Append(@, [name |-> name, el |-> el])]

\* container.querySelectorAll: the attached proper descendants of the
\* container among the elements the selector matches, in document order.
QuerySelectorAll(w, container, matching) ==
  SelectSeq(w.order,
            LAMBDA e : /\ (container = Doc \/ IsAncestor(container, e))
                       /\ e \in matching)

HasCellAttr(e) == CellAttr[e] # NoAttr

(***************************************************************************)
(* cell.js                                                                 *)
(***************************************************************************)
\* new Function("return { " + seed + " }")(), for the seeds of the document
parseSeed(seedExpr) ==
  CASE seedExpr = "count: 0" -> [count |-> Num(0)]
    [] seedExpr = "count: 1" -> [count |-> Num(1)]
    [] seedExpr = "count: 2" -> [count |-> Num(2)]
    [] seedExpr = "a: 1, b: 1, user: { name: 'test', score: 0, stats: { wins: 0, level: 1 } }" ->
         [ a |-> Num(1), b |-> Num(1),
           user |-> Obj([ name |-> Str("test"), score |-> Num(0),
                          stats |-> Obj([wins |-> Num(0), level |-> Num(1)]) ]) ]
    [] OTHER -> EmptyState

\* element.getAttribute('d-id') || element.id || null
getCellId(e) ==
  IF DIdAttr[e] # NoAttr THEN DIdAttr[e]
  ELSE IF IdAttr[e] # NoAttr THEN IdAttr[e]
  ELSE NoAttr

findAll(w, container) ==
  QuerySelectorAll(w, container, { e \in Elems : HasCellAttr(e) })

init(w, element) ==
  IF ~HasCellAttr(element) THEN w
  ELSE LET cellId == getCellId(element) IN
    IF cellId # NoAttr /\ w.cellIdStates[cellId].has
    THEN [w EXCEPT !.cellStates[element] = Some(w.cellIdStates[cellId].v)]
    ELSE LET state == parseSeed(CellAttr[element])
             w1 == [w EXCEPT !.cellStates[element] = Some(state)]
             w2 == IF cellId # NoAttr
                   THEN [w1 EXCEPT !.cellIdStates[cellId] = Some(state)]
                   ELSE w1
         IN Emit(w2, "cell:init", element)

\* getState both returns a state and may initialise the cell: getStateW is
\* the world after the call, getStateV the value returned.
getStateW(w, element) ==
  IF ~w.cellStates[element].has THEN init(w, element) ELSE w
getStateV(w, element) == getStateW(w, element).cellStates[element].v

\* A variant of setState that stores the partial state as the state.
setState_Replaces(w, element, newState) ==
  LET w0 == getStateW(w, element)
      updatedState == newState
      w1 == [w0 EXCEPT !.cellStates[element] = Some(updatedState)]
      cellId == getCellId(element)
      w2 == IF cellId # NoAttr
            THEN [w1 EXCEPT !.cellIdStates[cellId] = Some(updatedState)]
            ELSE w1
  IN Emit(w2, "cell:change", element)

\* A variant of setState that does not write the identity-key store.
setState_NoIdStore(w, element, newState) ==
  LET w0 == getStateW(w, element)
      updatedState == Spread(w0.cellStates[element].v, newState)
      w1 == [w0 EXCEPT !.cellStates[element] = Some(updatedState)]
  IN Emit(w1, "cell:change", element)

setState(w, element, newState) ==
  LET w0 == getStateW(w, element)
      updatedState == Spread(w0.cellStates[element].v, newState)
      w1 == [w0 EXCEPT !.cellStates[element] = Some(updatedState)]
      cellId == getCellId(element)
      w2 == IF cellId # NoAttr
            THEN [w1 EXCEPT !.cellIdStates[cellId] = Some(updatedState)]
            ELSE w1
  IN Emit(w2, "cell:change", element)

RECURSIVE snapshotEach(_, _, _)
snapshotEach(w, snap, cells) ==
  IF cells = << >> THEN [w |-> w, snap |-> snap]
  ELSE LET cell == Head(cells)
           cellId == getCellId(cell)
       IN IF cellId # NoAttr
          THEN snapshotEach(getStateW(w, cell),
                            [snap EXCEPT ![cellId] = Some(getStateV(w, cell))],
                            Tail(cells))
          ELSE snapshotEach(w, snap, Tail(cells))

\* snapshot(container): .snap is the returned Map, .w the world afterwards
snapshot(w, container) ==
  snapshotEach(w, [k \in Keys |-> None], findAll(w, container))

restore(w, snap) ==
  [w EXCEPT !.cellIdStates =
     [k \in Keys |-> IF snap[k].has THEN Some(snap[k].v) ELSE @[k]]]

RECURSIVE initAllEach(_, _)
initAllEach(w, cells) ==
  IF cells = << >> THEN w
  ELSE LET cell == Head(cells)
           w1 == IF DIdAttr[cell] = NoAttr /\ IdAttr[cell] = NoAttr
                 THEN Emit(w, "cell:warn", cell)
                 ELSE w
       IN initAllEach(init(w1, cell), Tail(cells))

Cell_initAll(w, container) == initAllEach(w, findAll(w, container))

clearPreserved(w, cellId) == [w EXCEPT !.cellIdStates[cellId] = None]


(***************************************************************************)
(* signal.js                                                               *)
(***************************************************************************)
Null == "null"

RECURSIVE findParentCell(_)
\* element.closest('[d-cell]'): the element itself or its nearest ancestor
findParentCell(element) ==
  IF element = Doc THEN Null
  ELSE IF HasCellAttr(element) THEN element
  ELSE findParentCell(Parent[element])

\* path.split('.'), for the paths of the document
Split(path) ==
  CASE path = "user.score" -> << "user", "score" >>
    [] path = "user.stats.wins" -> << "user", "stats", "wins" >>
    [] path = "user.name.first" -> << "user", "name", "first" >>
    [] path = "profile.age" -> << "profile", "age" >>
    [] OTHER -> << path >>

\* if (value) ..., value && ...
Truthy(val) ==
  CASE val.t = "number" -> val.v # 0
    [] val.t = "string" -> val.s # ""
    [] val.t = "boolean" -> val.v = 1
    [] val.t = "object" -> TRUE
    [] OTHER -> FALSE

\* prev[curr]: an own key of an object, undefined otherwise
Member(val, key) ==
  IF val.t = "object" /\ key \in DOMAIN val.o THEN val.o[key] ELSE Undefined

RECURSIVE ReducePath(_, _, _)
\* keys.reduce((prev, curr) => prev && prev[curr], obj), from the i-th key
ReducePath(prev, keys, i) ==
  IF i > Len(keys) THEN prev
  ELSE ReducePath(IF Truthy(prev) THEN Member(prev, keys[i]) ELSE prev, keys, i + 1)

\* getPath(obj, path)
getPath(obj, path) ==
  IF path = "" THEN Undefined
  ELSE IF path \in DOMAIN obj THEN obj[path]
  ELSE ReducePath(Obj(obj), Split(path), 1)

\* The literal tests of evaluate: /^-?\d+(\.\d+)?$/ for the texts used here
IsNumberLiteral(expr) == expr \in {"0", "1", "2", "3", "5"}
NumberOf(expr) ==
  CASE expr = "0" -> 0 [] expr = "1" -> 1 [] expr = "2" -> 2 [] expr = "3" -> 3
    [] expr = "5" -> 5
    [] OTHER -> 0

\* The comparison forms of evaluate, by its regular expressions, for the
\* expressions used here
ExprForm(expr) ==
  CASE expr = "count == 5" -> [form |-> "eq", left |-> "count", right |-> "5"]
    [] expr = "count != 5" -> [form |-> "neq", left |-> "count", right |-> "5"]
    [] OTHER -> [form |-> "none", left |-> "", right |-> ""]

\* a === b, for values that are no objects
StrictEquals(a, b) == a = b /\ a # NaN

RECURSIVE evaluate(_, _)
\* evaluate(expr, state): literal, property path, comparison, in the order
\* of the code
evaluate(expr, state) ==
  IF expr = "" THEN Undefined
  ELSE IF expr = "true" THEN Bool(TRUE)
  ELSE IF expr = "false" THEN Bool(FALSE)
  ELSE IF IsNumberLiteral(expr) THEN Num(NumberOf(expr))
  ELSE IF getPath(state, expr).t # "undefined" THEN getPath(state, expr)
  ELSE LET f == ExprForm(expr) IN
       IF f.form = "eq"
       THEN Bool(StrictEquals(evaluate(f.left, state), evaluate(f.right, state)))
       ELSE IF f.form = "neq"
       THEN Bool(~StrictEquals(evaluate(f.left, state), evaluate(f.right, state)))
       ELSE Undefined

\* value || 0
OrZero(val) == IF Truthy(val) THEN val ELSE Num(0)

\* Number(string), for the strings the model holds
StringToNumber(str) ==
  CASE str = "" -> Num(0)
    [] str = "5" -> Num(5)
    [] str = "51" -> Num(51)
    [] str = "510" -> Num(510)
    [] str = "520" -> Num(520)
    [] OTHER -> NaN

\* ToNumber(value), as the operators - and Math.max apply it
ToNumber(val) ==
  CASE val.t = "number" -> val
    [] val.t = "string" -> StringToNumber(val.s)
    [] val.t = "boolean" -> Num(val.v)
    [] OTHER -> NaN

\* value + n for a number n: a sum of numbers, or the concatenation of
\* strings when value is a string or an object
JsAdd(val, n) ==
  CASE val = NaN -> NaN
    [] val.t = "number" -> Num(val.v + n)
    [] val.t = "boolean" -> Num(val.v + n)
    [] val.t = "string" -> Str(val.s \o ToString(n))
    [] val.t = "object" -> Str("[object Object]" \o ToString(n))
    [] OTHER -> NaN

\* value - n for a number n
JsSub(val, n) ==
  IF ToNumber(val) = NaN THEN NaN ELSE Num(ToNumber(val).v - n)

\* The statement forms executeAssignment recognises, by its regular
\* expressions, in the statements of the document.
StmtForm(actionExpr) ==
  CASE actionExpr = "count = count + 1" ->
         [form |-> "add", prop |-> "count", src |-> "count", num |-> 1]
    [] actionExpr = "count = 2" ->
         [form |-> "number", prop |-> "count", src |-> "", num |-> 2]
    [] actionExpr = "hits = 1" ->
         [form |-> "number", prop |-> "hits", src |-> "", num |-> 1]
    [] actionExpr = "user.score = user.score + 1" ->
         [form |-> "add", prop |-> "user.score", src |-> "user.score", num |-> 1]
    [] actionExpr = "user.stats.wins = user.stats.wins + 1" ->
         [form |-> "add", prop |-> "user.stats.wins", src |-> "user.stats.wins",
          num |-> 1]
    [] actionExpr = "user.name.first = 1" ->
         [form |-> "number", prop |-> "user.name.first", src |-> "", num |-> 1]
    [] actionExpr = "profile.age = 1" ->
         [form |-> "number", prop |-> "profile.age", src |-> "", num |-> 1]
    [] actionExpr = "count = Math.min(count + 10, 5)" ->
         [form |-> "min", prop |-> "count", src |-> "count", num |-> 10,
          lim |-> 5]
    [] actionExpr = "count = Math.min(count + 1, 2)" ->
         [form |-> "min", prop |-> "count", src |-> "count", num |-> 1,
          lim |-> 2]
    [] actionExpr = "count = Math.max(count - 20, 0)" ->
         [form |-> "max", prop |-> "count", src |-> "count", num |-> 20,
          lim |-> 0]
    [] actionExpr = "count = Math.max(count - 1, 1)" ->
         [form |-> "max", prop |-> "count", src |-> "count", num |-> 1,
          lim |-> 1]
    [] actionExpr = "total = bonus + 10" ->
         [form |-> "add", prop |-> "total", src |-> "bonus", num |-> 10]
    [] actionExpr = "total = bonus - 10" ->
         [form |-> "sub", prop |-> "total", src |-> "bonus", num |-> 10]
    [] actionExpr = "b = a" ->
         [form |-> "generic", prop |-> "b", src |-> "a", num |-> 0]
    [] actionExpr = "other = ghost" ->
         [form |-> "generic", prop |-> "other", src |-> "ghost", num |-> 0]
    [] actionExpr = "data = {a: 1}" ->
         [form |-> "object", prop |-> "data", src |-> "{a: 1}", num |-> 0]
    [] actionExpr = "data = {invalid}" ->
         [form |-> "object", prop |-> "data", src |-> "{invalid}", num |-> 0]
    [] actionExpr = "this.ghost()" ->
         [form |-> "this.call", prop |-> "", src |-> "ghost", num |-> 0]
    [] actionExpr = "event.ghost()" ->
         [form |-> "event.call", prop |-> "", src |-> "ghost", num |-> 0]
    [] actionExpr = "event.preventDefault()" ->
         [form |-> "event.call", prop |-> "", src |-> "preventDefault", num |-> 0]
    [] actionExpr = "Ghost.method()" ->
         [form |-> "module.call", prop |-> "Ghost", src |-> "method", num |-> 0]
    [] actionExpr = "Pulse.ghost()" ->
         [form |-> "module.call", prop |-> "Pulse", src |-> "ghost", num |-> 0]
    [] actionExpr = "reset" ->
         [form |-> "reset", prop |-> "", src |-> "", num |-> 0]
    [] actionExpr = "this.reset()" ->
         [form |-> "this.reset", prop |-> "", src |-> "", num |-> 0]
    [] OTHER -> [form |-> "none", prop |-> "", src |-> "", num |-> 0]

\* obj with obj[key] = val
WithKey(obj, key, val) ==
  [k \in (DOMAIN obj) \cup {key} |-> IF k = key THEN val ELSE obj[k]]

RECURSIVE setPathFrom_NoSiblings(_, _, _, _, _)
\* A variant of the walk of setPath that starts every missing level empty.
setPathFrom_NoSiblings(current, keys, i, value, currentState) ==
  IF i = Len(keys)
  THEN [threw |-> FALSE, obj |-> WithKey(current, keys[i], value)]
  ELSE LET key == keys[i]
           child == IF key \in DOMAIN current THEN current[key]
                    ELSE Obj(EmptyState)
       IN IF child.t # "object"
          THEN [threw |-> TRUE, obj |-> current]
          ELSE LET r == setPathFrom_NoSiblings(child.o, keys, i + 1, value,
                                               Member(currentState, key))
               IN [threw |-> r.threw, obj |-> WithKey(current, key, Obj(r.obj))]

RECURSIVE setPathFrom(_, _, _, _, _)
\* The walk of setPath from the i-th key, on the object current, beside
\* currentState.  A level missing from current starts as a copy of the
\* object the state holds there, or as {}.  A level current already holds
\* is written through; when it is not an object, the write to it throws a
\* TypeError (a module is strict code).
setPathFrom(current, keys, i, value, currentState) ==
  IF i = Len(keys)
  THEN [threw |-> FALSE, obj |-> WithKey(current, keys[i], value)]
  ELSE LET key == keys[i]
           child == IF key \in DOMAIN current THEN current[key]
                    ELSE IF Truthy(currentState)
                            /\ Truthy(Member(currentState, key))
                            /\ Member(currentState, key).t = "object"
                    THEN Member(currentState, key)
                    ELSE Obj(EmptyState)
       IN IF child.t # "object"
          THEN [threw |-> TRUE, obj |-> current]
          ELSE LET r == setPathFrom(child.o, keys, i + 1, value,
                                    Member(currentState, key))
               IN [threw |-> r.threw, obj |-> WithKey(current, key, Obj(r.obj))]

\* setPath(obj, path, value, state): obj after the call, and whether the
\* call threw
setPath(obj, path, value, state) ==
  setPathFrom(obj, Split(path), 1, value, Obj(state))

RECURSIVE closestForm(_)
\* element.tagName === 'FORM' ? element : element.closest('form')
closestForm(element) ==
  IF element = Doc THEN Null
  ELSE IF IsForm(element) THEN element
  ELSE closestForm(Parent[element])

\* The callback () => form.reset() handed to setTimeout
ResetCallback(form) == [fn |-> "reset", el |-> form]

\* A variant of the reset command that resets the form at once: the
\* callback is returned to be run within the call.
resetCommand_Immediate(element) ==
  LET form == closestForm(element) IN
  IF form # Null
  THEN [timeouts |-> << >>, calls |-> << ResetCallback(form) >>]
  ELSE [timeouts |-> << >>, calls |-> << >>]

\* The reset command: setTimeout(() => form.reset(), 0) on the closest
\* form, a warning without one.  .timeouts are the callbacks handed to
\* setTimeout, .calls those run within the call.
resetCommand(element) ==
  LET form == closestForm(element) IN
  IF form # Null
  THEN [timeouts |-> << ResetCallback(form) >>, calls |-> << >>]
  ELSE [timeouts |-> << >>, calls |-> << >>]

\* this.reset(): deferred in the same way when the element has a reset
\* method, a warning otherwise
thisReset(element) ==
  IF IsForm(element)
  THEN [timeouts |-> << ResetCallback(element) >>, calls |-> << >>]
  ELSE [timeouts |-> << >>, calls |-> << >>]

\* The state object after setPath({}, path, value, state).  The first
\* level of the change set is a shallow copy of the object the state holds
\* there, so the second level is the object of the state itself, and what
\* setPath writes from the third key on, it writes into the state.
StateAfterSetPath(path, value, state) ==
  LET keys == Split(path) IN
  IF Len(keys) < 3 THEN state
  ELSE LET top == Member(Obj(state), keys[1]) IN
       IF top.t # "object" THEN state
       ELSE IF keys[2] \notin DOMAIN top.o THEN state
       ELSE IF top.o[keys[2]].t # "object" THEN state
       ELSE LET shared == top.o[keys[2]]
                r == setPathFrom(shared.o, keys, 3, value, shared)
            IN WithKey(state, keys[1],
                       Obj(WithKey(top.o, keys[2], Obj(r.obj))))

\* The object literal branch: quotes and keys are normalised and the text
\* goes to JSON.parse, for the literals used here; .threw tells that
\* JSON.parse threw, which the branch catches
parseObjectLiteral(text) ==
  CASE text = "{a: 1}" -> [threw |-> FALSE, val |-> Obj([a |-> Num(1)])]
    [] OTHER -> [threw |-> TRUE, val |-> Undefined]

\* Math.max and Math.min of two numbers
MathMax(a, b) == IF a >= b THEN a ELSE b
\* A variant of Math.min that returns its first argument.
MathMin_First(a, b) == a
MathMin(a, b) == IF a <= b THEN a ELSE b

\* typeof receiver[methodName] === 'function', for this (a button or a
\* form, reset aside), for the event (a click or a submit) and for the
\* registered modules (Pulse, registered when the page is initialised)
ElementMethods == {"click", "focus", "blur"}
EventMethods == {"preventDefault", "stopPropagation"}
ModuleMethods == [Pulse |-> {"go", "refresh", "navigate", "action", "submit",
                             "commit"}]
IsFunction(receiver, methodName) ==
  CASE receiver = "this" -> methodName \in ElementMethods
    [] receiver = "event" -> methodName \in EventMethods
    [] OTHER -> /\ receiver \in DOMAIN ModuleMethods
                /\ methodName \in ModuleMethods[receiver]

\* A variant of the method call that does not test for the method.
callMethod_Unchecked(receiver, methodName) ==
  [ threw |-> ~IsFunction(receiver, methodName),
    called |-> IsFunction(receiver, methodName) ]

\* The method call branches: the method is called when it is a function,
\* a warning is logged otherwise; both return an empty change set.
callMethod(receiver, methodName) ==
  [ threw |-> FALSE, called |-> IsFunction(receiver, methodName) ]

\* A value to assign, or none
NoChange == [set |-> FALSE, val |-> Undefined]
Set(val) == [set |-> TRUE, val |-> val]

\* The generic branch: val is evaluate(valueExpr, state); when it is
\* undefined, the property of the state named by the text is copied
FirstDefined(val, valueExpr, state) ==
  IF val.t # "undefined" THEN Set(val)
  ELSE IF valueExpr \in DOMAIN state THEN Set(state[valueExpr])
  ELSE NoChange

Generic(valueExpr, state) ==
  FirstDefined(evaluate(valueExpr, state), valueExpr, state)

\* The object literal branch, parsed being the outcome of JSON.parse: the
\* text falls through to the generic branch when JSON.parse threw
ObjectOrGeneric(parsed, valueExpr, state) ==
  IF parsed.threw THEN Generic(valueExpr, state) ELSE Set(parsed.val)

\* Math.max(val, lim) and Math.min(val, lim) of values
MaxOf(val, lim) == IF val = NaN THEN NaN ELSE Num(MathMax(val.v, lim))
MinOf(val, lim) == IF val = NaN THEN NaN ELSE Num(MathMin(val.v, lim))

\* The value the statement of form f assigns, source being
\* getPath(state, f.src) || 0
AssignedValue(f, source, state) ==
  CASE f.form = "add" -> Set(JsAdd(source, f.num))
    [] f.form = "sub" -> Set(JsSub(source, f.num))
    [] f.form = "max" -> Set(MaxOf(JsSub(source, f.num), f.lim))
    [] f.form = "min" -> Set(MinOf(ToNumber(JsAdd(source, f.num)), f.lim))
    [] f.form = "number" -> Set(Num(f.num))
    [] f.form = "object" ->
         ObjectOrGeneric(parseObjectLiteral(f.src), f.src, state)
    [] f.form = "generic" -> Generic(f.src, state)
    [] OTHER -> NoChange

\* The change set and whether the call threw, a being the value to assign
ChangeSet(f, a, state) ==
  IF a.set THEN setPath(EmptyState, f.prop, a.val, state)
  ELSE IF f.form = "this.call"
  THEN [threw |-> callMethod("this", f.src).threw, obj |-> EmptyState]
  ELSE IF f.form = "event.call"
  THEN [threw |-> callMethod("event", f.src).threw, obj |-> EmptyState]
  ELSE IF f.form = "module.call"
  THEN [threw |-> callMethod(f.prop, f.src).threw, obj |-> EmptyState]
  ELSE [threw |-> FALSE, obj |-> EmptyState]

\* The callbacks of the commands reset and this.reset()
Commands(f, element) ==
  CASE f.form = "reset" -> resetCommand(element)
    [] f.form = "this.reset" -> thisReset(element)
    [] OTHER -> [timeouts |-> << >>, calls |-> << >>]

\* The outcome of a call: r the change set, t the callbacks, stateAfter the
\* state object when the call ends
Outcome(r, t, stateAfter) ==
  [ threw |-> r.threw, changes |-> r.obj, timeouts |-> t.timeouts,
    calls |-> t.calls, state |-> stateAfter ]

ExecuteValue(f, a, state, element) ==
  Outcome(ChangeSet(f, a, state), Commands(f, element),
          IF a.set THEN StateAfterSetPath(f.prop, a.val, state) ELSE state)

ExecuteForm(f, state, element) ==
  ExecuteValue(f, AssignedValue(f, OrZero(getPath(state, f.src)), state),
               state, element)

\* executeAssignment(expr, state, event, element): the change set it
\* returns, whether it threw instead, the callbacks it handed to
\* setTimeout and those it ran, and the state object afterwards
executeAssignment(expr, state, element) ==
  ExecuteForm(StmtForm(expr), state, element)

\* splitSignals(attribute) followed by the match /^([\w:-]+):\s*(.+)$/s of
\* each part
SignalParts(signalExpr) ==
  CASE signalExpr = "click: count = count + 1" ->
         << [event |-> "click", action |-> "count = count + 1"] >>
    [] signalExpr = "click: count = 2" ->
         << [event |-> "click", action |-> "count = 2"] >>
    [] signalExpr = "click: count = count + 1; click: hits = 1" ->
         << [event |-> "click", action |-> "count = count + 1"],
            [event |-> "click", action |-> "hits = 1"] >>
    [] signalExpr = "click: user.score = user.score + 1" ->
         << [event |-> "click", action |-> "user.score = user.score + 1"] >>
    [] signalExpr = "click: user.stats.wins = user.stats.wins + 1" ->
         << [event |-> "click", action |-> "user.stats.wins = user.stats.wins + 1"] >>
    [] signalExpr = "click: user.name.first = 1" ->
         << [event |-> "click", action |-> "user.name.first = 1"] >>
    [] signalExpr = "click: profile.age = 1" ->
         << [event |-> "click", action |-> "profile.age = 1"] >>
    [] signalExpr = "click: count = Math.min(count + 10, 5)" ->
         << [event |-> "click", action |-> "count = Math.min(count + 10, 5)"] >>
    [] signalExpr = "click: count = Math.min(count + 1, 2)" ->
         << [event |-> "click", action |-> "count = Math.min(count + 1, 2)"] >>
    [] signalExpr = "click: count = Math.max(count - 20, 0)" ->
         << [event |-> "click", action |-> "count = Math.max(count - 20, 0)"] >>
    [] signalExpr = "click: count = Math.max(count - 1, 1)" ->
         << [event |-> "click", action |-> "count = Math.max(count - 1, 1)"] >>
    [] signalExpr = "click: this.ghost()" ->
         << [event |-> "click", action |-> "this.ghost()"] >>
    [] signalExpr = "click: event.ghost()" ->
         << [event |-> "click", action |-> "event.ghost()"] >>
    [] signalExpr = "click: Ghost.method()" ->
         << [event |-> "click", action |-> "Ghost.method()"] >>
    [] signalExpr = "click: Pulse.ghost()" ->
         << [event |-> "click", action |-> "Pulse.ghost()"] >>
    [] signalExpr = "click: data = {invalid}" ->
         << [event |-> "click", action |-> "data = {invalid}"] >>
    [] signalExpr = "click: count +" ->
         << [event |-> "click", action |-> "count +"] >>
    [] signalExpr = "submit: reset" ->
         << [event |-> "submit", action |-> "reset"] >>
    [] signalExpr = "click: reset" ->
         << [event |-> "click", action |-> "reset"] >>
    [] signalExpr = "submit: this.reset()" ->
         << [event |-> "submit", action |-> "this.reset()"] >>
    [] OTHER -> << >>

SignalTexts == { "click: count = count + 1", "click: count = 2",
                 "click: count = count + 1; click: hits = 1", "" }

\* d-attr: the parts name:expr of the attribute
AttrParts(attrExpr) ==
  CASE attrExpr = "title:count" -> << [name |-> "title", expr |-> "count"] >>
    [] OTHER -> << >>

\* A selection of bound elements without the ownership filter.
BoundTo_NoFilter(w, cellElement, Attr) ==
  { e \in w.inDom : IsAncestor(cellElement, e) /\ Attr[e] # NoAttr }

\* The elements whose bindings updateBindings(cellElement) refreshes:
\* cellElement.querySelectorAll(...) filtered by findParentCell(el) ===
\* cellElement.
BoundTo(w, cellElement, Attr) ==
  { e \in w.inDom : /\ IsAncestor(cellElement, e)
                    /\ Attr[e] # NoAttr
                    /\ findParentCell(e) = cellElement }

updateBindings(w, cellElement, silent) ==
  LET w0 == getStateW(w, cellElement)
      state == w0.cellStates[cellElement].v
      textEls == BoundTo(w0, cellElement, TextAttr)
      showEls == BoundTo(w0, cellElement, ShowAttr)
      attrEls == BoundTo(w0, cellElement, AttrAttr)
      TitleOf(e) ==
        LET parts == AttrParts(AttrAttr[e]) IN
        IF parts = << >> THEN w0.title[e]
        ELSE LET value == evaluate(parts[1].expr, state) IN
             IF value.t = "undefined" THEN w0.title[e]
             ELSE IF value.t # "boolean" THEN JsString(value)
             ELSE IF value.v = 1 THEN "" ELSE NoAttr
      w1 == [w0 EXCEPT
               !.text = [e \in Elems |->
                  IF e \in textEls /\ evaluate(TextAttr[e], state).t # "undefined"
                  THEN JsString(evaluate(TextAttr[e], state))
                  ELSE @[e]],
               !.display = [e \in Elems |->
                  IF e \in showEls
                  THEN (IF Truthy(evaluate(ShowAttr[e], state)) THEN "" ELSE "none")
                  ELSE @[e]],
               !.title = [e \in Elems |->
                  IF e \in attrEls THEN TitleOf(e) ELSE @[e]]]
  IN IF silent THEN w1 ELSE Emit(w1, "signal:update", cellElement)

\* A timer callback runs: form.reset() puts the field back to its default
runCallback(w, cb) == [w EXCEPT !.values[cb.el] = DefaultValue]

RECURSIVE runCallbacks(_, _)
runCallbacks(w, cbs) ==
  IF cbs = << >> THEN w ELSE runCallbacks(runCallback(w, Head(cbs)), Tail(cbs))

\* A variant of the handler that does not refresh the bindings.
Handler_NoRefresh(w, l) ==
  LET w0 == IF l.cell # Null THEN getStateW(w, l.cell) ELSE w
      state == IF l.cell # Null THEN w0.cellStates[l.cell].v ELSE EmptyState
      r == executeAssignment(l.action, state, l.el)
      w1 == runCallbacks([w0 EXCEPT !.timers = @ \o r.timeouts], r.calls)
  IN IF ~r.threw /\ l.cell # Null /\ DOMAIN r.changes # {}
     THEN setState(w1, l.cell, r.changes)
     ELSE w1

\* The handler closure created by bindSignalElement for one statement.  A
\* throw of executeAssignment ends the handler before it writes anything.
Handler(w, l) ==
  LET w0 == IF l.cell # Null THEN getStateW(w, l.cell) ELSE w
      state == IF l.cell # Null THEN w0.cellStates[l.cell].v ELSE EmptyState
      r == executeAssignment(l.action, state, l.el)
      w1 == runCallbacks([w0 EXCEPT !.timers = @ \o r.timeouts], r.calls)
  IN IF ~r.threw /\ l.cell # Null /\ DOMAIN r.changes # {}
     THEN updateBindings(setState(w1, l.cell, r.changes), l.cell, FALSE)
     ELSE w1

RECURSIVE RemoveFirst(_, _)
\* element.removeEventListener(l.event, l.handler)
RemoveFirst(seq, l) ==
  IF seq = << >> THEN << >>
  ELSE IF Head(seq) = l THEN Tail(seq)
  ELSE << Head(seq) >> \o RemoveFirst(Tail(seq), l)

RECURSIVE RemoveAll(_, _)
RemoveAll(seq, ls) ==
  IF ls = << >> THEN seq ELSE RemoveAll(RemoveFirst(seq, Head(ls)), Tail(ls))

\* The listener records bindSignalElement creates for an attribute value
NewListeners(element, signalExpr) ==
  LET parts == SignalParts(signalExpr) IN
  [i \in 1..Len(parts) |->
     [event |-> parts[i].event, action |-> parts[i].action,
      cell |-> findParentCell(element), el |-> element]]

bindSignalElement(w, element) ==
  LET signalExpr == w.sigAttr[element] IN
  IF signalExpr = NoAttr \/ signalExpr = "" THEN w
  ELSE LET existing == w.boundListeners[element]
           kept == IF existing.has
                   THEN RemoveAll(w.listeners[element], existing.v)
                   ELSE w.listeners[element]
           newListeners == NewListeners(element, signalExpr)
       IN [w EXCEPT !.listeners[element] = kept \o newListeners,
                    !.boundListeners[element] = [has |-> TRUE, v |-> newListeners]]

HasSignalAttr(w, e) == w.sigAttr[e] # NoAttr

\* container.querySelectorAll('[d-signal]'), with the container itself put
\* first when it carries the attribute
signalElements(w, container) ==
  (IF container # Doc /\ HasSignalAttr(w, container) THEN << container >> ELSE << >>)
  \o QuerySelectorAll(w, container, { e \in Elems : HasSignalAttr(w, e) })

RECURSIVE bindEach(_, _)
bindEach(w, els) ==
  IF els = << >> THEN w ELSE bindEach(bindSignalElement(w, Head(els)), Tail(els))

RECURSIVE updateEach(_, _)
updateEach(w, cells) ==
  IF cells = << >> THEN w
  ELSE updateEach(updateBindings(w, Head(cells), TRUE), Tail(cells))

Signal_initAll(w, container) ==
  LET w1 == bindEach(w, signalElements(w, container))
  IN updateEach(w1, findAll(w1, container))

RECURSIVE cleanupEach(_, _)
cleanupEach(w, els) ==
  IF els = << >> THEN w
  ELSE LET el == Head(els)
           existingListeners == w.boundListeners[el]
           w1 == IF existingListeners.has
                 THEN [w EXCEPT
                         !.listeners[el] = RemoveAll(@, existingListeners.v),
                         !.boundListeners[el] = NoListeners]
                 ELSE w
       IN cleanupEach(w1, Tail(els))

\* A variant of cleanup that forgets the table entries but leaves the
\* listeners on the elements.
cleanup_KeepsListeners(w, container) ==
  [w EXCEPT !.boundListeners =
     [e \in Elems |->
        IF \E i \in 1..Len(signalElements(w, container)) :
             signalElements(w, container)[i] = e
        THEN NoListeners ELSE @[e]]]

cleanup(w, container) == cleanupEach(w, signalElements(w, container))

\* element.dispatchEvent(event): the event visits the target and then its
\* ancestors (bubbling); on each, the listeners for the event run in
\* registration order.
RECURSIVE EventPath(_)
EventPath(e) == IF e = Doc THEN << >> ELSE << e >> \o EventPath(Parent[e])

RECURSIVE runListeners(_, _, _)
runListeners(w, ls, event) ==
  IF ls = << >> THEN w
  ELSE IF Head(ls).event = event
       THEN runListeners(Handler(w, Head(ls)), Tail(ls), event)
       ELSE runListeners(w, Tail(ls), event)

RECURSIVE dispatchAlong(_, _, _)
dispatchAlong(w, path, event) ==
  IF path = << >> THEN w
  ELSE dispatchAlong(runListeners(w, w.listeners[Head(path)], event),
                     Tail(path), event)

dispatchEvent(w, element, event) == dispatchAlong(w, EventPath(element), event)


(***************************************************************************)
(* surface.js                                                              *)
(***************************************************************************)
\* Elements that leave the document are destroyed and elements that enter
\* it are newly created: neither has a WeakMap entry, a listener or text.
Renew(w, els) ==
  [w EXCEPT
     !.sigAttr = [e \in Elems |-> IF e \in els THEN SignalAttrInit[e] ELSE @[e]],
     !.cellStates = [e \in Elems |-> IF e \in els THEN None ELSE @[e]],
     !.boundListeners = [e \in Elems |-> IF e \in els THEN NoListeners ELSE @[e]],
     !.listeners = [e \in Elems |-> IF e \in els THEN << >> ELSE @[e]],
     !.text = [e \in Elems |-> IF e \in els THEN "" ELSE @[e]],
     !.display = [e \in Elems |-> IF e \in els THEN "" ELSE @[e]],
     !.title = [e \in Elems |-> IF e \in els THEN NoAttr ELSE @[e]]]

DescendantsOf(w, surface) == { e \in w.inDom : IsAncestor(surface, e) }

\* template.innerHTML = html: the elements of the parsed fragment, in the
\* order of its markup
FragmentOrder(html) ==
  SelectSeq(DocOrder, LAMBDA e : e \in ContentElems(html))

Without(seq, els) == SelectSeq(seq, LAMBDA e : e \notin els)

\* The position in seq of the last element among els (0: none)
LastIndex(seq, els) ==
  LET I == { i \in DOMAIN seq : seq[i] \in els }
  IN IF I = {} THEN 0 ELSE CHOOSE i \in I : \A j \in I : j <= i

InsertAfter(seq, i, fragment) ==
  SubSeq(seq, 1, i) \o fragment \o SubSeq(seq, i + 1, Len(seq))

\* surface.appendChild(fragment): behind the last node below the surface
AppendChild(seq, surface, fragment) ==
  InsertAfter(seq,
              LastIndex(seq, { e \in Elems : e = surface \/ IsAncestor(surface, e) }),
              fragment)

\* surface.insertBefore(fragment, surface.firstChild): right behind the
\* start of the surface
InsertFirst(seq, surface, fragment) ==
  InsertAfter(seq, LastIndex(seq, {surface}), fragment)

\* replace(surface, html): surface.innerHTML = '' and the parsed fragment
\* appended
Surface_replace(w, surface, html) ==
  LET removed == DescendantsOf(w, surface)
      created == ContentElems(html)
      w1 == Renew(w, removed \cup created)
  IN [w1 EXCEPT !.inDom = (w.inDom \ removed) \cup created,
                !.order = AppendChild(Without(w.order, removed \cup created),
                                      surface, FragmentOrder(html))]

\* inject(surface, html, position), behind append and prepend: the parsed
\* fragment is inserted behind the existing children ('beforeend') or
\* before them, and the existing children stay
inject(w, surface, html, position) ==
  LET created == ContentElems(html)
      w1 == Renew(w, created)
      rest == Without(w.order, created)
  IN [w1 EXCEPT !.inDom = w.inDom \cup created,
                !.order = IF position = "beforeend"
                          THEN AppendChild(rest, surface, FragmentOrder(html))
                          ELSE InsertFirst(rest, surface, FragmentOrder(html))]

Surface_append(w, surface, html) == inject(w, surface, html, "beforeend")
Surface_prepend(w, surface, html) == inject(w, surface, html, "afterbegin")

(***************************************************************************)
(* echo.js                                                                 *)
(***************************************************************************)
\* A callback passed to withPreservation, as data.  NotAFunction is the
\* value of a parameter for which the caller passed no argument.
NotAFunction == [fn |-> "undefined", surface |-> "", html |-> ""]
ReplaceFn(surface, html) == [fn |-> "replace", surface |-> surface, html |-> html]
AppendFn(surface, html) == [fn |-> "append", surface |-> surface, html |-> html]
PrependFn(surface, html) == [fn |-> "prepend", surface |-> surface, html |-> html]

Call(w, f) ==
  CASE f.fn = "replace" -> Surface_replace(w, f.surface, f.html)
    [] f.fn = "append" -> Surface_append(w, f.surface, f.html)
    [] f.fn = "prepend" -> Surface_prepend(w, f.surface, f.html)
    [] OTHER -> w

\* before(surface): .w is the world afterwards, .snap the returned snapshot
before(w, surface) == snapshot(cleanup(w, surface), surface)

after(w, surface, snap) ==
  Signal_initAll(Cell_initAll(restore(w, snap), surface), surface)

\* withPreservation(surface, newContent, replaceFn): .threw tells that the
\* call ended with a TypeError at replaceFn(), after before(surface) ran.
withPreservation(w, surface, newContent, replaceFn) ==
  LET b == before(w, surface) IN
  IF replaceFn.fn = "undefined"
  THEN [w |-> b.w, threw |-> TRUE]
  ELSE [w |-> after(Call(b.w, replaceFn), surface, b.snap), threw |-> FALSE]

(***************************************************************************)
(* The top-loader plugin.  The loader is a record of TopLoader.state and   *)
(* of its pending timers: .active and .status as in the source, .timerId   *)
(* tells that the timer stored in state.timerId has not fired and was not  *)
(* cleared, .remaining, .completing and .fading count the pending          *)
(* callbacks of the three nested setTimeout calls of complete().  progress *)
(* and opacity only feed render() and are left out, and so is tick().      *)
(***************************************************************************)
\* TopLoader.state when the module is loaded
LoaderState ==
  [ installed |-> FALSE, active |-> 0, status |-> "IDLE", timerId |-> FALSE,
    remaining |-> 0, completing |-> 0, fading |-> 0 ]

\* reset()
reset(ld) == [ld EXCEPT !.active = 0, !.status = "IDLE", !.timerId = FALSE]

\* start(): the listener of pulse:start
start(ld) ==
  LET l == [ld EXCEPT !.active = @ + 1] IN
  IF l.status \in {"IDLE", "FADING"}
  THEN [l EXCEPT !.status = "PENDING", !.timerId = TRUE]
  ELSE l

\* show()
show(ld) == [ld EXCEPT !.status = "VISIBLE"]

\* the callback of the timer start() sets
showTimerFires(ld) ==
  LET l == [ld EXCEPT !.timerId = FALSE] IN
  IF l.active > 0 THEN show(l) ELSE l

\* complete(), up to its setTimeout
complete(ld) ==
  IF ld.status # "VISIBLE" THEN reset(ld)
  ELSE [ld EXCEPT !.status = "COMPLETING", !.remaining = @ + 1]

\* A variant of done that takes every end of a request for the last one.
done_Forced(ld) ==
  LET l == [ld EXCEPT !.active = 0] IN
  IF l.active = 0 /\ l.status \in {"VISIBLE", "PENDING"}
  THEN complete(l)
  ELSE l

\* done(force), called as a listener of pulse:end: force is the detail of
\* the event, so isForce is false
done(ld) ==
  LET l == IF ld.active > 0 THEN [ld EXCEPT !.active = @ - 1] ELSE ld IN
  IF l.active = 0 /\ l.status \in {"VISIBLE", "PENDING"}
  THEN complete(l)
  ELSE l

\* error(): the listener of pulse:error
error(ld) == done(ld)

\* the three nested callbacks of complete()
remainingTimerFires(ld) ==
  LET l == [ld EXCEPT !.remaining = @ - 1] IN
  IF l.status # "COMPLETING" THEN l ELSE [l EXCEPT !.completing = @ + 1]

completeTimerFires(ld) ==
  LET l == [ld EXCEPT !.completing = @ - 1] IN
  IF l.status # "COMPLETING" THEN l
  ELSE [l EXCEPT !.status = "FADING", !.fading = @ + 1]

fadeTimerFires(ld) == reset([ld EXCEPT !.fading = @ - 1])

\* install(Surf, options) binds start, done and error to pulse:start,
\* pulse:end and pulse:error; Events.emit calls them before it returns.
LoaderOn(ld, event) ==
  CASE ~ld.installed -> ld
    [] event = "pulse:start" -> start(ld)
    [] event = "pulse:end" -> done(ld)
    [] event = "pulse:error" -> error(ld)
    [] OTHER -> ld

(***************************************************************************)
(* State                                                                   *)
(***************************************************************************)
VARIABLES
  inDom, order, sigAttr, cellStates, cellIdStates, boundListeners, listeners,
  text, display, title, emitted,
  last,      \* the operation performed by the last step, with its arguments
             \* and, for withPreservation, the cell states before the call
  reqs,      \* pulse.js: the calls of sendPulse, by request number
  contexts,  \* pulse.js contexts: target selector -> request owning the
             \* stored cancellation context (0: no entry)
  hist,      \* the entries of window.history, oldest first
  histAt,    \* the position in hist of the current entry
  loc,       \* window.location.href
  microtasks, \* the continuations waiting in the microtask queue, oldest
             \* first: .navigate the calls of navigate whose await of
             \* sendPulse resolved, .handleClick the elements whose click
             \* handler awaits getCellModule()
  evListeners, \* events.js listeners: event name -> array of callbacks
  evCalls,   \* the callback invocations of the current Events.emit, in order
  evLogs,    \* the number of console.error calls of the current Events.emit
  timers,    \* pending zero-delay timer callbacks, oldest first
  values,    \* the value of the field of each form
  topLoader, \* the top-loader plugin: TopLoader.state and its timers
  autoRefresh, \* the auto-refresh plugin: its options, the clock and the
             \* interval timers it has set
  plugins,   \* surf.js Surf.plugins: the registered plugins, oldest first
  installs   \* plugin name -> the calls of install made for it and the
             \* calls of install that returned

domVars == << inDom, order, sigAttr, cellStates, cellIdStates, boundListeners,
              listeners, text, display, title, emitted, timers, values >>
pulseVars == << reqs, contexts, hist, histAt, loc, microtasks >>
eventVars == << evListeners, evCalls, evLogs >>
facadeVars == << plugins, installs, topLoader, autoRefresh >>
vars == << domVars, last, pulseVars, eventVars, facadeVars >>

\* events.js: no event name has a listener array when the module is loaded
EventNames == {"ready", "done"}
NoList == [has |-> FALSE, v |-> << >>]
InitEventVars ==
  /\ evListeners = [n \in EventNames |-> NoList]
  /\ evCalls = << >>
  /\ evLogs = 0

\* surf.js: the plugins a page hands to Surf.use.  Two objects carry the
\* same name, two carry no name, the install of one may throw, and one
\* has no install function.
PluginObjects ==
  { [id |-> "test", name |-> "TestPlugin", install |-> "returns"],
    [id |-> "test2", name |-> "TestPlugin", install |-> "returns"],
    [id |-> "anon", name |-> "", install |-> "returns"],
    [id |-> "anon2", name |-> "", install |-> "returns"],
    [id |-> "flaky", name |-> "Flaky", install |-> "may throw"],
    [id |-> "data", name |-> "Data", install |-> "none"] }

\* plugin.name || 'Anonymous'
PluginName(plugin) == IF plugin.name # "" THEN plugin.name ELSE "Anonymous"
PluginNames == { PluginName(p) : p \in PluginObjects }

\* The auto-refresh plugin before its install: no timer is set.  .now is
\* the time in ms since the page was loaded.  A timer is a record of the
\* element it polls (.el), whether that element object is still connected,
\* its interval, the time it was set at (.since), the calls of fetch made
\* for the element (.requests), and whether clearInterval was called.
\* .calls counts the calls of Surface.replace, Surface.append and
\* Surface.prepend that scripts of the page made since the install,
\* .responses the polls the server has answered.
NotPolling ==
  [ installed |-> FALSE, skipInitial |-> FALSE, now |-> 0, polls |-> << >>,
    mutations |-> << >>, calls |-> 0, responses |-> 0 ]

\* Surf.plugins is empty when the module is loaded
InitFacadeVars ==
  /\ plugins = << >>
  /\ installs = [n \in PluginNames |-> [calls |-> 0, returned |-> 0]]
  /\ topLoader = LoaderState
  /\ autoRefresh = NotPolling

\* The pulse event of the step, as the listeners of the loader see it:
\* pulse:start, pulse:end and pulse:error of sendPulse are counted in reqs,
\* the pulse:end of Surf.applyPatch is in the events of the document w.  A
\* step runs sendPulse from one await to the next and emits at most one.
PulseEventOfStep(w) ==
  CASE \E r \in DOMAIN reqs : reqs'[r].starts > reqs[r].starts
         -> "pulse:start"
    [] \E r \in DOMAIN reqs : reqs'[r].errors > reqs[r].errors
         -> "pulse:error"
    [] \E r \in DOMAIN reqs : reqs'[r].ends > reqs[r].ends
         -> "pulse:end"
    [] \E i \in DOMAIN w.emitted : w.emitted[i].name = "pulse:end"
         -> "pulse:end"
    [] OTHER -> "none"

World ==
  [ inDom |-> inDom, order |-> order, sigAttr |-> sigAttr,
    cellStates |-> cellStates,
    cellIdStates |-> cellIdStates, boundListeners |-> boundListeners,
    listeners |-> listeners, text |-> text, display |-> display,
    title |-> title, emitted |-> << >>, timers |-> timers, values |-> values ]

\* The document after the step is w
SetDocument(w) ==
  /\ inDom' = w.inDom
  /\ order' = w.order
  /\ sigAttr' = w.sigAttr
  /\ cellStates' = w.cellStates
  /\ cellIdStates' = w.cellIdStates
  /\ boundListeners' = w.boundListeners
  /\ listeners' = w.listeners
  /\ text' = w.text
  /\ display' = w.display
  /\ title' = w.title
  /\ emitted' = w.emitted
  /\ timers' = w.timers
  /\ values' = w.values

\* A step of a page without the auto-refresh plugin ends with document w
Install(w) ==
  \E v \in {w} :
    /\ UNCHANGED << eventVars, plugins, installs, autoRefresh >>
    /\ IF topLoader.installed
       THEN topLoader' = LoaderOn(topLoader, PulseEventOfStep(v))
       ELSE UNCHANGED topLoader
    /\ SetDocument(v)

\* The state is the world w (used by Init)
Holds(w) ==
  /\ inDom = w.inDom
  /\ order = w.order
  /\ sigAttr = w.sigAttr
  /\ cellStates = w.cellStates
  /\ cellIdStates = w.cellIdStates
  /\ boundListeners = w.boundListeners
  /\ listeners = w.listeners
  /\ text = w.text
  /\ display = w.display
  /\ title = w.title
  /\ emitted = w.emitted
  /\ timers = w.timers
  /\ values = w.values

NoPre == [e \in Elems |-> None]

Op(name, el) ==
  [ op |-> name, el |-> el, fn |-> NotAFunction, threw |-> FALSE,
    pre |-> NoPre, preDom |-> {}, preListeners |-> [e \in Elems |-> << >>] ]

\* A page as served with region main holding the fragments of mainHtml and
\* region side those of sideHtml, after surf.js init() ran Cell.initAll()
\* and Signal.initAll() on the document.
LoadedWorld(mainHtml, sideHtml) ==
  LET dom == {"main", "side"}
             \cup UNION { ContentElems(h) : h \in mainHtml \cup sideHtml }
      w0 == [FreshWorld EXCEPT
               !.inDom = dom,
               !.order = SelectSeq(DocOrder, LAMBDA e : e \in dom)]
      w1 == Signal_initAll(Cell_initAll(w0, Doc), Doc)
  IN [w1 EXCEPT !.emitted = << >>]

(***************************************************************************)
(* Operations on the page                                                  *)
(***************************************************************************)
CellsInDom == { e \in inDom : HasCellAttr(e) }
SignalElsInDom == { e \in inDom : sigAttr[e] # NoAttr }

Partials == { [count |-> Num(n)] : n \in 0..MaxCount }

RECURSIVE ValueWithin(_)
\* Every number held in a value stays within the bound of the model.
ValueWithin(val) ==
  CASE val.t = "number" -> val.v <= MaxCount
    [] val.t = "object" -> \A k \in DOMAIN val.o : ValueWithin(val.o[k])
    [] OTHER -> TRUE

\* Every number held anywhere stays within the bound of the model.
WithinBound(w) ==
  /\ \A e \in Elems : w.cellStates[e].has => ValueWithin(Obj(w.cellStates[e].v))
  /\ \A k \in Keys : w.cellIdStates[k].has => ValueWithin(Obj(w.cellIdStates[k].v))

\* The identity keys carried by the cells of a set of elements
KeyedCells(els) == { e \in els : HasCellAttr(e) /\ getCellId(e) # NoAttr }
UniqueKeys(els) ==
  \A a, b \in KeyedCells(els) : getCellId(a) = getCellId(b) => a = b

\* Cell.init(element)
CellInit(e) ==
  /\ e \in CellsInDom
  /\ Install(init(World, e))
  /\ last' = Op("Cell.init", e)

\* Cell.setState(element, partial)
CellSetState(e, partial) ==
  /\ e \in CellsInDom
  /\ Install(setState(World, e, partial))
  /\ last' = [partial |-> partial] @@ Op("Cell.setState", e)

\* Surf.setState(cell, partial): Cell.setState, then Signal.updateBindings
SurfSetState(e, partial) ==
  /\ e \in CellsInDom
  /\ Install(updateBindings(setState(World, e, partial), e, FALSE))
  /\ last' = [partial |-> partial] @@ Op("Surf.setState", e)

\* Cell.clearPreserved(cellId)
ClearPreserved(k) ==
  /\ cellIdStates[k].has
  /\ Install(clearPreserved(World, k))
  /\ last' = Op("Cell.clearPreserved", k)

\* Cell.initAll(container)
CellInitAll(c) ==
  /\ c \in Surfaces \cup {Doc}
  /\ Install(Cell_initAll(World, c))
  /\ last' = Op("Cell.initAll", c)

\* Signal.updateBindings(cell)
UpdateBindings(e) ==
  /\ e \in CellsInDom
  /\ Install(updateBindings(World, e, FALSE))
  /\ last' = Op("Signal.updateBindings", e)

\* The author changes the d-signal attribute of an element.
SetSignalAttribute(e, value) ==
  /\ e \in SignalElsInDom
  /\ value # sigAttr[e]
  /\ Install([World EXCEPT !.sigAttr[e] = value])
  /\ last' = Op("setAttribute", e)

\* The containers Signal.initAll and Signal.cleanup are called on
Containers == (Surfaces \cup {Doc} \cup CellsInDom \cup SignalElsInDom)
              \cap (inDom \cup {Doc})

\* Signal.initAll(container)
SignalInitAll(c) ==
  /\ c \in Containers
  /\ Install(Signal_initAll(World, c))
  /\ last' = [Op("Signal.initAll", c) EXCEPT !.preListeners = listeners]

\* Signal.cleanup(container)
SignalCleanup(c) ==
  /\ c \in Containers
  /\ Install(cleanup(World, c))
  /\ last' = [Op("Signal.cleanup", c) EXCEPT !.preListeners = listeners]

\* A click on an element
Click(e) ==
  /\ e \in SignalElsInDom
  /\ WithinBound(dispatchEvent(World, e, "click"))
  /\ Install(dispatchEvent(World, e, "click"))
  /\ last' = Op("click", e)

\* The callbacks a caller hands to withPreservation for a region: replace
\* its content, or insert a fragment whose elements are not yet present.
Insertable(surface) ==
  { c \in ContentsFor(surface) :
      /\ ContentElems(c) # {}
      /\ ContentElems(c) \cap inDom = {}
      /\ UniqueKeys(inDom \cup ContentElems(c)) }

MutationsOf(surface) ==
  { ReplaceFn(surface, h) : h \in ContentsFor(surface) }
  \cup { AppendFn(surface, h) : h \in Insertable(surface) }
  \cup { PrependFn(surface, h) : h \in Insertable(surface) }

EchoStep(surface, newContent, replaceFn, fn, name) ==
  LET r == withPreservation(World, surface, newContent, replaceFn) IN
  /\ Install(r.w)
  /\ last' = [ op |-> name, el |-> surface, fn |-> fn, threw |-> r.threw,
               pre |-> [e \in Elems |->
                          IF e \in inDom /\ HasCellAttr(e)
                          THEN Some(getStateV(World, e)) ELSE None],
               preDom |-> inDom, preListeners |-> listeners ]

\* Echo.withPreservation(surface, mutate): the callback is the second
\* argument, the third parameter receives no argument.
WithPreservation2(surface, fn) ==
  /\ surface \in Surfaces
  /\ fn \in MutationsOf(surface)
  /\ EchoStep(surface, fn, NotAFunction, fn, "withPreservation/2")

\* Echo.withPreservation(surface, content, mutate): the callback is the
\* third argument.
WithPreservation3(surface, fn) ==
  /\ surface \in Surfaces
  /\ fn \in MutationsOf(surface)
  /\ EchoStep(surface, fn.html, fn, fn, "withPreservation/3")

\* Snapshots a caller can hand to Echo.after and to Cell.restore: the
\* empty Map, and a Map with a state under the key of cell A (one that an
\* earlier call of Echo.before returned, or one the caller built)
NoSnapshot == [k \in Keys |-> None]
Snapshots ==
  {NoSnapshot}
  \cup { [NoSnapshot EXCEPT !["k"] = Some(p)] : p \in Partials }

\* The state a caller of SpecStore sets and hands in with snapshots: one
\* that no seed of the page holds
StorePartials == { [count |-> Num(MaxCount)] }

\* Snapshots with states under the keys of the cells A and S
StoreSnapshots ==
  { [NoSnapshot EXCEPT !["k"] = a, !["s"] = b] :
      a, b \in {None} \cup { Some(p) : p \in StorePartials } }

\* Echo.before(surface), called on its own: the returned snapshot is the
\* caller's.  The element handed in is a region or a Cell element.
EchoBefore(surface) ==
  /\ surface \in Surfaces \cup CellsInDom
  /\ Install(before(World, surface).w)
  /\ last' = [snap |-> before(World, surface).snap]
             @@ Op("Echo.before", surface)

\* Echo.after(surface, snapshot), called on its own
EchoAfter(surface, snap) ==
  /\ surface \in Surfaces \cup CellsInDom
  /\ Install(after(World, surface, snap))
  /\ last' = [snap |-> snap] @@ Op("Echo.after", surface)

\* Cell.restore(snap), called on its own
CellRestore(snap) ==
  /\ Install(restore(World, snap))
  /\ last' = [snap |-> snap] @@ Op("Cell.restore", Doc)

(***************************************************************************)
(* pulse.js                                                                *)
(***************************************************************************)
MaxReq == 2
ReqIds == 1..MaxReq

\* Selectors: #main and #side match the two regions of the page, #gone
\* matches no element.  Requests are issued for the targets in Targets.
Selectors == {"#main", "#side", "#gone", "html"}
Targets == {"#main", "#gone"}
Urls == {"/a", "/b"}

\* document.querySelector(selector)
querySelector(w, selector) ==
  CASE selector = "#main" /\ "main" \in w.inDom -> "main"
    [] selector = "#side" /\ "side" \in w.inDom -> "side"
    [] selector = "html" -> Doc
    [] OTHER -> Null

\* Response bodies: a bare HTML fragment, or a <d-patch> document with its
\* <surface target=...> regions in payload order.
HtmlBody(html) == [patch |-> FALSE, html |-> html, regions |-> << >>]
PatchBody(regions) == [patch |-> TRUE, html |-> "", regions |-> regions]
Region(target, content) == [target |-> target, content |-> content]

\* Patch.isPatch(html) and Patch.parse(html) on these bodies
isPatch(body) == body.patch
parse(body) == body.regions

Bodies ==
  { HtmlBody("B"), HtmlBody("S"),
    PatchBody(<< Region("#gone", "B") >>),
    PatchBody(<< Region("#gone", "B"), Region("#side", "S") >>),
    PatchBody(<< Region("#side", "S"), Region("#gone", "B") >>) }

IdleReq ==
  [ pc |-> "idle", kind |-> "", url |-> "", target |-> "", swap |-> Null,
    cancelled |-> FALSE, promise |-> "pending", outcome |-> "none",
    starts |-> 0, ends |-> 0, errors |-> 0, logs |-> 0 ]

InFlight(rq) == rq.pc \in {"fetch", "text"}

NoMicrotasks == [navigate |-> << >>, handleClick |-> << >>]

\* A call of sendPulse that returned or threw: its arguments are gone, what
\* stays is what it emitted and how its promise settled.
Finished(rq, outcome, promise) ==
  [rq EXCEPT !.pc = "done", !.outcome = outcome, !.promise = promise,
             !.url = "", !.target = "", !.swap = Null]

\* applyPatches(patches): .threw tells that an exception left the loop
RECURSIVE applyPatches(_, _)
applyPatches(w, patches) ==
  IF patches = << >> THEN [w |-> w, threw |-> FALSE]
  ELSE LET target == Head(patches).target
           surface == querySelector(w, target)
       IN IF surface = Null
          THEN applyPatches(Emit(w, "console.warn", target), Tail(patches))
          ELSE LET r == withPreservation(w, surface,
                          ReplaceFn(surface, Head(patches).content),
                          NotAFunction)
               IN IF r.threw THEN r ELSE applyPatches(r.w, Tail(patches))

\* Surf.applyPatch(patchHtml): every region whose target matches an element
\* goes through withPreservation, the others are passed over; pulse:end is
\* emitted after the loop.
RECURSIVE applyPatchEach(_, _)
applyPatchEach(w, patches) ==
  IF patches = << >> THEN [w |-> w, threw |-> FALSE]
  ELSE LET target == Head(patches).target
           surface == querySelector(w, target)
       IN IF surface # Null
          THEN LET r == withPreservation(w, surface,
                          ReplaceFn(surface, Head(patches).content),
                          NotAFunction)
               IN IF r.threw THEN r ELSE applyPatchEach(r.w, Tail(patches))
          ELSE applyPatchEach(w, Tail(patches))

Surf_applyPatch(w, body) ==
  LET r == applyPatchEach(w, parse(body)) IN
  IF r.threw THEN r
  ELSE [w |-> Emit(r.w, "pulse:end", Doc), threw |-> FALSE]

\* The callback sendPulse builds for a bare fragment and a swap mode
SwapFn(surface, swapMode, html) ==
  IF swapMode = "append" THEN AppendFn(surface, html)
  ELSE IF swapMode = "prepend" THEN PrependFn(surface, html)
  ELSE ReplaceFn(surface, html)

\* options.swap || surface.getAttribute('d-swap') || 'inner'
swapModeOf(swap, surface) ==
  IF swap # Null THEN swap
  ELSE IF SwapAttr[surface] # NoAttr THEN SwapAttr[surface]
  ELSE "inner"

\* The part of sendPulse between `const html = await response.text()` and
\* the pulse:end event: the response is applied to the document.
applyResponse(w, body, targetSelector, swap) ==
  IF isPatch(body) THEN applyPatches(w, parse(body))
  ELSE LET surface == querySelector(w, targetSelector) IN
       IF surface = Null THEN [w |-> w, threw |-> FALSE]
       ELSE LET swapMode == swapModeOf(swap, surface)
            IN withPreservation(w, surface,
                                SwapFn(surface, swapMode, body.html),
                                NotAFunction)

\* sendPulse up to its first await: pulse:start, the previous context of
\* the target is cancelled, the new one is stored.
sendPulseStart(rs, r, kind, url, targetSelector, swap) ==
  [ q \in ReqIds |->
      IF q = r
      THEN [IdleReq EXCEPT !.pc = "fetch", !.kind = kind, !.url = url,
                           !.target = targetSelector, !.swap = swap,
                           !.starts = 1]
      ELSE IF contexts[targetSelector] = q
           THEN [rs[q] EXCEPT !.cancelled = TRUE]
           ELSE rs[q] ]

\* A variant of the catch block without the cancellation test.
sendPulseCatch_NoCancelTest(rq) ==
  [rq EXCEPT !.logs = @ + 1, !.errors = @ + 1,
             !.outcome = "error", !.promise = "rejected"]

\* A variant of the catch block that swallows every error.
sendPulseCatch_Swallows(rq) ==
  [rq EXCEPT !.outcome = "silent", !.promise = "resolved"]

\* A variant of the catch block that announces the end of the request as
\* well.
sendPulseCatch_AlsoEnds(rq) ==
  IF rq.cancelled
  THEN [rq EXCEPT !.outcome = "silent", !.promise = "resolved"]
  ELSE [rq EXCEPT !.logs = @ + 1, !.errors = @ + 1, !.ends = @ + 1,
                  !.outcome = "error", !.promise = "rejected"]

\* catch (error): silent when the context was cancelled, otherwise logged,
\* announced by pulse:error and rethrown
sendPulseCatch(rq) ==
  IF rq.cancelled
  THEN [rq EXCEPT !.outcome = "silent", !.promise = "resolved"]
  ELSE [rq EXCEPT !.logs = @ + 1, !.errors = @ + 1,
                  !.outcome = "error", !.promise = "rejected"]

\* A variant of the finally block that deletes whatever entry the target has.
sendPulseFinally_DeletesAny(ctxs, targetSelector, r) ==
  [ctxs EXCEPT ![targetSelector] = 0]

\* finally: the entry of the target is deleted when it is this request's
sendPulseFinally(ctxs, targetSelector, r) ==
  IF ctxs[targetSelector] = r THEN [ctxs EXCEPT ![targetSelector] = 0]
  ELSE ctxs

\* A history entry: its state object { surf, url, target } and its URL.
\* An entry whose state is null has surf = FALSE and no target.
SurfEntry(url, target) == [surf |-> TRUE, url |-> url, target |-> target]
PlainEntry(url) == [surf |-> FALSE, url |-> url, target |-> ""]

\* history.replaceState(state, '', url) and history.pushState(state, '',
\* url): the current entry is replaced; or the entries after the current
\* one are dropped and the new entry becomes the current one.
replaceState(h, at, entry) == [hist |-> [h EXCEPT ![at] = entry], at |-> at]
pushState(h, at, entry) ==
  [hist |-> Append(SubSeq(h, 1, at), entry), at |-> at + 1]

\* navigate, after `await sendPulse(...)` returned: replaceState when the
\* url is the current location, pushState otherwise.
NavigateHistory(h, at, l, url, target) ==
  LET w == IF l = url THEN replaceState(h, at, SurfEntry(url, target))
           ELSE pushState(h, at, SurfEntry(url, target))
  IN [hist |-> w.hist, at |-> w.at, loc |-> url]

\* `await sendPulse(...)` in navigate: the rest of navigate runs, as a
\* microtask, when the promise resolved; a rejection leaves navigate by the
\* exception.  The other callers do nothing after their await.
Resumes(rq, promise) == rq.kind = "navigate" /\ promise = "resolved"

\* The request once sendPulse returned or threw: a call of navigate that
\* will resume keeps its url and target
Returned(rq, outcome, promise) ==
  IF Resumes(rq, promise)
  THEN [rq EXCEPT !.pc = "resume", !.outcome = outcome, !.promise = promise]
  ELSE Finished(rq, outcome, promise)

\* The microtask queue once sendPulse of request r returned or threw
Enqueued(q, rq, r, promise) ==
  IF Resumes(rq, promise) THEN [q EXCEPT !.navigate = Append(@, r)] ELSE q

\* No continuation of navigate is waiting: the event loop takes the next
\* task (a timer, a step through the history) only then
NoContinuation == microtasks.navigate = << >>

\* The continuation of the caller once the promise of sendPulse settled:
\* navigate writes history when the promise resolved; the other callers do
\* nothing.
AfterSendPulse(rq) ==
  IF rq.kind = "navigate" /\ rq.promise = "resolved"
  THEN NavigateHistory(hist, histAt, loc, rq.url, rq.target)
  ELSE [hist |-> hist, at |-> histAt, loc |-> loc]

NextReq == CHOOSE r \in ReqIds \cup {MaxReq + 1} :
             /\ (r \in ReqIds => reqs[r].pc = "idle")
             /\ \A q \in ReqIds : q < r => reqs[q].pc # "idle"

PulseOp(name, r) == [op |-> name, el |-> r]

\* Pulse.navigate(url, target, {swap}) / Pulse.refresh(target), up to the
\* await of fetch
StartPulse(kind, url, targetSelector, swap) ==
  /\ NextReq \in ReqIds
  /\ kind = "refresh" => (url = loc /\ swap = Null)
  /\ reqs' = sendPulseStart(reqs, NextReq, kind, url, targetSelector, swap)
  /\ contexts' = [contexts EXCEPT ![targetSelector] = NextReq]
  /\ last' = PulseOp("sendPulse", NextReq)
  /\ Install(World)
  /\ UNCHANGED << hist, histAt, loc, microtasks >>

\* handleClick, the branch of an action pulse: the data-* attributes of the
\* element are collected, then the state of the enclosing cell is assigned
\* over them.  .w is the document after Cell.getState, .data the object
\* handed to action().
actionData(w, element) ==
  LET data == DataAttrs[element]
      parentCell == findParentCell(element)
  IN IF parentCell # Null
     THEN [w |-> getStateW(w, parentCell),
           data |-> Spread(data, getStateV(w, parentCell))]
     ELSE [w |-> w, data |-> data]

\* The end of handleClick for an action pulse, from Cell.getState on:
\* action(actionUrl, data, targetSelector) sends a POST whose body is
\* JSON.stringify(data).
ActionStarts(e) ==
  /\ NextReq \in ReqIds
  /\ \E a \in {actionData(World, e)} :
       /\ Install(a.w)
       /\ last' = [ op |-> "handleClick", el |-> NextReq, src |-> e,
                    method |-> "POST", url |-> ActionAttr[e], body |-> a.data ]
  /\ reqs' = sendPulseStart(reqs, NextReq, "action", ActionAttr[e],
                            TargetAttr[e], Null)
  /\ contexts' = [contexts EXCEPT ![TargetAttr[e]] = NextReq]
  /\ UNCHANGED << hist, histAt, loc >>

\* The calls of sendPulse made so far and those the waiting click handlers
\* will make
RequestsClaimed ==
  Cardinality({ r \in ReqIds : reqs[r].pc # "idle" })
  + Len(microtasks.handleClick)

\* A click on an element carrying d-pulse="action" and d-action.  For an
\* element inside a cell handleClick reads the attributes and stops at
\* `await getCellModule()`; for an element outside every cell it calls
\* action() before it returns.
ClickPulse(e) ==
  /\ e \in inDom
  /\ PulseAttr[e] = "action"
  /\ ActionAttr[e] # NoAttr
  /\ RequestsClaimed < MaxReq
  /\ IF findParentCell(e) # Null
     THEN /\ microtasks' = [microtasks EXCEPT !.handleClick = Append(@, e)]
          /\ last' = Op("handleClick:await", e)
          /\ Install(World)
          /\ UNCHANGED << reqs, contexts, hist, histAt, loc >>
     ELSE /\ ActionStarts(e)
          /\ UNCHANGED microtasks

\* handleClick resumes after `await getCellModule()`: the state of the
\* enclosing cell, as it is now, is assigned over the data and action() is
\* called.  The handlers resume in the order of their clicks.
HandleClickResumes ==
  /\ microtasks.handleClick # << >>
  /\ ActionStarts(Head(microtasks.handleClick))
  /\ microtasks' = [microtasks EXCEPT !.handleClick = Tail(@)]

\* commit(form, targetSelector) up to the call of sendPulse: the method,
\* the fields read through FormData, and the url and body of the request
commitRequest(w, form) ==
  LET method == IF FormMethod[form] = "post" THEN "POST" ELSE "GET"
      params == "msg=" \o w.values[form]
  IN IF method = "GET"
     THEN [method |-> "GET", url |-> FormAction[form] \o "?" \o params,
           body |-> "", params |-> params]
     ELSE [method |-> method, url |-> FormAction[form], body |-> params,
           params |-> params]

\* A submit event is dispatched on a form: the listeners of the form and
\* of its ancestors run, then handleSubmit of pulse.js, registered on the
\* document, which calls commit for a form with d-pulse="commit".
SubmitForm(f) ==
  /\ f \in inDom
  /\ IsForm(f)
  /\ \E w \in {dispatchEvent(World, f, "submit")} :
       /\ Install(w)
       /\ IF PulseAttr[f] = "commit"
          THEN /\ NextReq \in ReqIds
               /\ last' = [ op |-> "submit", el |-> f, req |-> NextReq,
                            sent |-> commitRequest(w, f) ]
               /\ reqs' = sendPulseStart(reqs, NextReq, "commit",
                                         commitRequest(w, f).url,
                                         TargetAttr[f], Null)
               /\ contexts' = [contexts EXCEPT ![TargetAttr[f]] = NextReq]
          ELSE /\ last' = [op |-> "submit", el |-> f, req |-> Null]
               /\ UNCHANGED << reqs, contexts >>
  /\ UNCHANGED << hist, histAt, loc, microtasks >>

\* The user edits the field of a form.
FieldValues == {"", "x"}
TypeField(f, value) ==
  /\ f \in inDom
  /\ IsForm(f)
  /\ value # values[f]
  /\ Install([World EXCEPT !.values[f] = value])
  /\ last' = Op("input", f)

\* The event loop runs the oldest pending timer callback.
TimerFires ==
  /\ timers # << >>
  /\ NoContinuation
  /\ Install(runCallback([World EXCEPT !.timers = Tail(@)], Head(timers)))
  /\ last' = Op("timer", Head(timers).el)
  /\ UNCHANGED pulseVars

\* The request ends in the catch block (the awaited promise rejected, the
\* status was not ok, or applying the response threw).
EndInCatch(r, w) ==
  LET rq == sendPulseCatch(reqs[r]) IN
  /\ reqs' = [reqs EXCEPT ![r] = Returned(rq, rq.outcome, rq.promise)]
  /\ contexts' = sendPulseFinally(contexts, rq.target, r)
  /\ microtasks' = Enqueued(microtasks, rq, r, rq.promise)
  /\ UNCHANGED << hist, histAt, loc >>
  /\ Install(w)

\* navigate resumes after `await sendPulse(...)`: it writes the history
\* against the location as it is now.  The calls resume in the order in
\* which their requests ended.
NavigateResumes ==
  /\ microtasks.navigate # << >>
  /\ \E r \in {Head(microtasks.navigate)} :
       /\ hist' = AfterSendPulse(reqs[r]).hist
       /\ histAt' = AfterSendPulse(reqs[r]).at
       /\ loc' = AfterSendPulse(reqs[r]).loc
       /\ reqs' = [reqs EXCEPT
                     ![r] = Finished(reqs[r], reqs[r].outcome, reqs[r].promise)]
       /\ last' = PulseOp("navigate:history", r)
  /\ microtasks' = [microtasks EXCEPT !.navigate = Tail(@)]
  /\ Install(World)
  /\ UNCHANGED contexts

\* The promise of fetch settles: it rejects (a network failure, or the
\* abort of the signal handed to fetch), or resolves with a status that is
\* not ok (sendPulse throws), or resolves ok.  sendPulse does not look at
\* its context after the await, so a request whose context was cancelled
\* goes on like any other when its fetch resolves.
FetchSettles(r, result) ==
  /\ reqs[r].pc = "fetch"
  /\ last' = PulseOp("fetch:" \o result, r)
  /\ IF result = "ok"
     THEN /\ reqs' = [reqs EXCEPT ![r].pc = "text"]
          /\ Install(World)
          /\ UNCHANGED << contexts, hist, histAt, loc, microtasks >>
     ELSE EndInCatch(r, World)

\* The promise of response.text() rejects (the body could not be read, or
\* the signal was aborted while it was read): the request ends in the
\* catch block.
TextRejects(r) ==
  /\ reqs[r].pc = "text"
  /\ EndInCatch(r, World)
  /\ last' = PulseOp("text:reject", r)

\* The promise of response.text() yields the body, which is applied to
\* the document, whether or not the context of the request was cancelled
\* in the meantime: sendPulse tests ctx.cancelled() in its catch block
\* only.
TextSettles(r, body) ==
  /\ reqs[r].pc = "text"
  /\ body \in Bodies
  /\ \E a \in {applyResponse(World, body, reqs[r].target, reqs[r].swap)} :
       /\ last' = [ op |-> "apply", el |-> r, body |-> body ]
       /\ IF a.threw
          THEN EndInCatch(r, a.w)
          ELSE LET rq == [reqs[r] EXCEPT !.ends = @ + 1, !.outcome = "end",
                                         !.promise = "resolved"]
               IN /\ reqs' = [reqs EXCEPT ![r] = Returned(rq, "end", "resolved")]
                  /\ contexts' = sendPulseFinally(contexts, rq.target, r)
                  /\ microtasks' = Enqueued(microtasks, rq, r, "resolved")
                  /\ UNCHANGED << hist, histAt, loc >>
                  /\ Install(a.w)

\* Surf.applyPatch(patchHtml)
SurfApplyPatch(body) ==
  /\ isPatch(body)
  /\ Install(Surf_applyPatch(World, body).w)
  /\ last' = [ op |-> "Surf.applyPatch", el |-> 0, body |-> body ]
  /\ UNCHANGED pulseVars

\* A variant of handlePopState that replays the entry through navigate.
handlePopState_Navigates(state) ==
  IF state.surf
  THEN [ reload |-> FALSE, kind |-> "navigate", url |-> state.url,
         target |-> IF state.target # "" THEN state.target ELSE "html" ]
  ELSE [reload |-> TRUE, kind |-> "", url |-> "", target |-> ""]

\* handlePopState(event), for event.state given as an entry: a call of
\* sendPulse(state.url, { method: 'GET' }, state.target || 'html') that is
\* no navigate, or window.location.reload()
handlePopState(state) ==
  IF state.surf
  THEN [ reload |-> FALSE, kind |-> "popstate", url |-> state.url,
         target |-> IF state.target # "" THEN state.target ELSE "html" ]
  ELSE [reload |-> TRUE, kind |-> "", url |-> "", target |-> ""]

\* The user goes back or forward to entry i of the history: the browser
\* makes it the current entry, sets the location to its URL and fires
\* popstate with its state.  When handlePopState reloads, the page is
\* loaded anew at that URL: the module state is that of a fresh load, and
\* init() of pulse.js, finding no history.state, replaces the entry.
PopState(i) ==
  /\ i \in 1..Len(hist)
  /\ i # histAt
  /\ NoContinuation
  /\ histAt' = i
  /\ loc' = hist[i].url
  /\ \E h \in {handlePopState(hist[i])} :
       IF h.reload
       THEN /\ last' = [ op |-> "popstate", el |-> 0, state |-> hist[i],
                         reload |-> TRUE, method |-> "" ]
            /\ Install(LoadedWorld({"A"}, {"S"}))
            /\ reqs' = [r \in ReqIds |-> IdleReq]
            /\ contexts' = [t \in Selectors |-> 0]
            /\ microtasks' = NoMicrotasks
            /\ hist' = replaceState(hist, i, SurfEntry(hist[i].url, "html")).hist
       ELSE /\ NextReq \in ReqIds
            /\ last' = [ op |-> "popstate", el |-> NextReq, state |-> hist[i],
                         reload |-> FALSE, method |-> "GET" ]
            /\ Install(World)
            /\ reqs' = sendPulseStart(reqs, NextReq, h.kind, h.url, h.target, Null)
            /\ contexts' = [contexts EXCEPT ![h.target] = NextReq]
            /\ UNCHANGED << hist, microtasks >>

\* Entries that code outside pulse.js adds to the history: a link to a
\* fragment of the page pushes an entry whose state is null; a script
\* pushes an entry whose state carries the marker and a url but no target.
OtherEntries == { PlainEntry("/a"), SurfEntry("/b", "") }

OtherPush(entry) ==
  /\ hist' = pushState(hist, histAt, entry).hist
  /\ histAt' = pushState(hist, histAt, entry).at
  /\ loc' = entry.url
  /\ last' = [op |-> "pushState", el |-> 0, entry |-> entry]
  /\ Install(World)
  /\ UNCHANGED << reqs, contexts, microtasks >>

(***************************************************************************)
(* SpecPulse: requests against a page whose region main holds fragment A   *)
(* and whose region side holds fragment S.                                 *)
(***************************************************************************)
InitPulseVars ==
  /\ reqs = [r \in ReqIds |-> IdleReq]
  /\ contexts = [t \in Selectors |-> 0]
  /\ hist = << SurfEntry("/a", "html") >>
  /\ histAt = 1
  /\ loc = "/a"
  /\ microtasks = NoMicrotasks

InitPulse ==
  /\ Holds(LoadedWorld({"A"}, {"S"}))
  /\ last = PulseOp("load", 0)
  /\ InitPulseVars
  /\ InitEventVars
  /\ InitFacadeVars

NextPulse ==
  \/ \E u \in Urls, t \in Targets : StartPulse("navigate", u, t, Null)
  \/ \E t \in Targets : StartPulse("refresh", loc, t, Null)
  \/ \E r \in ReqIds, res \in {"reject", "notok", "ok"} : FetchSettles(r, res)
  \/ \E r \in ReqIds, b \in Bodies : TextSettles(r, b)
  \/ \E r \in ReqIds : TextRejects(r)
  \/ NavigateResumes
  \/ \E b \in Bodies : SurfApplyPatch(b)
  \/ SignalInitAll(Doc) /\ UNCHANGED pulseVars

SpecPulse == InitPulse /\ [][NextPulse]_vars

(***************************************************************************)
(* patch.js on markup.  Markup is a sequence of tokens: an opening tag     *)
(* (with the text written for its target attribute), a closing tag, or     *)
(* text.                                                                   *)
(***************************************************************************)
MaxPairs == 2

\* Text is a sequence of characters, each a one-character string.
OpenTag(tag, attr) == [k |-> "open", tag |-> tag, s |-> attr]
CloseTag(tag) == [k |-> "close", tag |-> tag, s |-> << >>]
TextTok(str) == [k |-> "text", tag |-> "", s |-> str]

\* Targets a caller hands to create: two selectors, the empty string, a
\* selector holding double quotes, one holding the character reference
\* &amp; and one holding a bare ampersand.  None holds < or >.
PatchTargets ==
  { << "#", "m", "a", "i", "n" >>,
    << "#", "s", "i", "d", "e" >>,
    << >>,
    << "[", "a", "=", "\"", "b", "\"", "]" >>,
    << "a", "&", "a", "m", "p", ";", "b" >>,
    << "a", "&", "b" >> }

\* Contents a caller hands to create: plain text, an element, nothing,
\* text with a bare ampersand, text with the reference &amp;, a template
\* element, a surface element.
PatchContents ==
  { << TextTok(<< "W", "o", "r", "l", "d" >>) >>,
    << OpenTag("b", << >>), TextTok(<< "b", "o", "l", "d" >>), CloseTag("b") >>,
    << >>,
    << TextTok(<< "a", " ", "&", " ", "b" >>) >>,
    << TextTok(<< "a", "&", "a", "m", "p", ";", "b" >>) >>,
    << OpenTag("template", << >>), TextTok(<< "T" >>), CloseTag("template") >>,
    << OpenTag("surface", << "#", "i", "n" >>), TextTok(<< "i", "n" >>),
       CloseTag("surface") >> }

RECURSIVE SurfaceHtml(_, _)
\* surfaces.map(s => `  <surface target="${s.target}">${s.content}</surface>`)
\*         .join('\n'), from the i-th pair on
SurfaceHtml(surfaces, i) ==
  IF i > Len(surfaces) THEN << >>
  ELSE (IF i > 1 THEN << TextTok(<< "\n" >>) >> ELSE << >>)
       \o << TextTok(<< " ", " " >>), OpenTag("surface", surfaces[i].target) >>
       \o surfaces[i].content
       \o << CloseTag("surface") >>
       \o SurfaceHtml(surfaces, i + 1)

\* create(surfaces)
Patch_create(surfaces) ==
  << OpenTag("d-patch", << >>), TextTok(<< "\n" >>) >>
  \o SurfaceHtml(surfaces, 1)
  \o << TextTok(<< "\n" >>), CloseTag("d-patch") >>

\* The named character references the markup here can hold
CharRefs ==
  { [name |-> << "&", "a", "m", "p", ";" >>, char |-> "&"],
    [name |-> << "&", "q", "u", "o", "t", ";" >>, char |-> "\""],
    [name |-> << "&", "l", "t", ";" >>, char |-> "<"],
    [name |-> << "&", "g", "t", ";" >>, char |-> ">"] }

StartsWith(str, prefix) ==
  Len(prefix) <= Len(str) /\ SubSeq(str, 1, Len(prefix)) = prefix

RECURSIVE DecodeRefs(_)
\* The tokenizer's reading of text and of attribute values: a character
\* reference becomes the character it names, an ampersand that starts no
\* reference stays.
DecodeRefs(str) ==
  IF str = << >> THEN << >>
  ELSE LET hit == { r \in CharRefs : StartsWith(str, r.name) }
       IN IF hit # {}
          THEN LET r == CHOOSE x \in hit : TRUE
               IN << r.char >> \o DecodeRefs(SubSeq(str, Len(r.name) + 1, Len(str)))
          ELSE << Head(str) >> \o DecodeRefs(Tail(str))

RECURSIVE UpToQuote(_)
\* A double-quoted attribute value ends at the first double quote.
UpToQuote(raw) ==
  IF raw = << >> \/ Head(raw) = "\"" THEN << >>
  ELSE << Head(raw) >> \o UpToQuote(Tail(raw))

\* surface.getAttribute('target') for a tag written as target="raw": the
\* text of raw up to its first double quote, character references decoded.
\* What follows the quote is read as further attributes of the tag (raw
\* holds no >) and touches neither the target nor the content.
AttrValue(raw) == DecodeRefs(UpToQuote(raw))

\* A parsed node: an element with its children, or a text node.
ElemNode(tag, attr, kids) == [k |-> "el", tag |-> tag, s |-> attr, kids |-> kids]
TextNode(str) == [k |-> "text", tag |-> "", s |-> str, kids |-> << >>]

RECURSIVE ParseNodes(_, _)
\* DOMParser on the tokens from position i: the sibling nodes up to the
\* closing tag of their parent (or the end), and the position after them.
ParseNodes(toks, i) ==
  IF i > Len(toks) THEN [nodes |-> << >>, next |-> i]
  ELSE IF toks[i].k = "close" THEN [nodes |-> << >>, next |-> i + 1]
  ELSE IF toks[i].k = "text"
  THEN LET rest == ParseNodes(toks, i + 1)
       IN [nodes |-> << TextNode(DecodeRefs(toks[i].s)) >> \o rest.nodes,
           next |-> rest.next]
  ELSE LET inner == ParseNodes(toks, i + 1)
           rest == ParseNodes(toks, inner.next)
       IN [nodes |-> << ElemNode(toks[i].tag, AttrValue(toks[i].s), inner.nodes) >>
                      \o rest.nodes,
           next |-> rest.next]

RECURSIVE EscapeText(_)
\* The text of a text node as innerHTML serialises it
EscapeText(str) ==
  IF str = << >> THEN << >>
  ELSE (IF Head(str) = "&" THEN << "&", "a", "m", "p", ";" >>
        ELSE IF Head(str) = "<" THEN << "&", "l", "t", ";" >>
        ELSE IF Head(str) = ">" THEN << "&", "g", "t", ";" >>
        ELSE << Head(str) >>)
       \o EscapeText(Tail(str))

RECURSIVE EscapeAttr(_)
\* The value of an attribute as innerHTML serialises it
EscapeAttr(str) ==
  IF str = << >> THEN << >>
  ELSE (IF Head(str) = "&" THEN << "&", "a", "m", "p", ";" >>
        ELSE IF Head(str) = "\"" THEN << "&", "q", "u", "o", "t", ";" >>
        ELSE << Head(str) >>)
       \o EscapeAttr(Tail(str))

RECURSIVE Serialize(_)
\* innerHTML of an element with the children given
Serialize(nodes) ==
  IF nodes = << >> THEN << >>
  ELSE LET n == Head(nodes)
       IN (IF n.k = "text" THEN << TextTok(EscapeText(n.s)) >>
           ELSE << OpenTag(n.tag, EscapeAttr(n.s)) >> \o Serialize(n.kids)
                \o << CloseTag(n.tag) >>)
          \o Serialize(Tail(nodes))

RECURSIVE Descendants(_)
\* The element nodes below the nodes given, in document order
Descendants(nodes) ==
  IF nodes = << >> THEN << >>
  ELSE LET n == Head(nodes)
       IN (IF n.k = "el" THEN << n >> \o Descendants(n.kids) ELSE << >>)
          \o Descendants(Tail(nodes))

WithTag(nodes, tag) == SelectSeq(Descendants(nodes), LAMBDA n : n.tag = tag)

RECURSIVE PatchesOf(_)
\* surfaceElements.forEach: a surface without target is passed over; the
\* content is the innerHTML of its first template, or else its own.
PatchesOf(surfaceElements) ==
  IF surfaceElements = << >> THEN << >>
  ELSE LET surface == Head(surfaceElements)
           target == surface.s
           templates == WithTag(surface.kids, "template")
           content == IF templates # << >> THEN Serialize(Head(templates).kids)
                      ELSE Serialize(surface.kids)
       IN (IF target = << >> THEN << >>
           ELSE << [target |-> target, content |-> content] >>)
          \o PatchesOf(Tail(surfaceElements))

\* parse(html)
Patch_parse(html) ==
  LET doc == ParseNodes(html, 1).nodes
      patchElements == WithTag(doc, "d-patch")
  IN IF patchElements = << >> THEN << >>
     ELSE PatchesOf(WithTag(Head(patchElements).kids, "surface"))

Pair(target, content) == [target |-> target, content |-> content]

\* The pair lists of one to MaxPairs pairs
RECURSIVE PairLists(_)
PairLists(n) ==
  IF n = 0 THEN { << >> }
  ELSE LET shorter == PairLists(n - 1)
       IN shorter \cup
          { Append(l, Pair(t, c)) :
              l \in { x \in shorter : Len(x) = n - 1 },
              t \in PatchTargets, c \in PatchContents }

\* Patch.parse(Patch.create(pairs)) on the pairs handed in
PatchRoundTrip ==
  /\ last.op = "pairs"
  /\ LET pairs == last.pairs IN
     last' = [ op |-> "Patch.parse(Patch.create)", el |-> Doc, pairs |-> pairs,
               html |-> Patch_create(pairs),
               parsed |-> Patch_parse(Patch_create(pairs)) ]
  /\ Install(World)
  /\ UNCHANGED pulseVars

(***************************************************************************)
(* SpecPatch: a non-empty pair list is handed in, made into a patch and     *)
(* parsed back.                                                            *)
(***************************************************************************)
InitPatch ==
  /\ Holds(LoadedWorld({"A"}, {}))
  /\ \E pairs \in PairLists(MaxPairs) \ { << >> } :
       last = [op |-> "pairs", el |-> Doc, pairs |-> pairs]
  /\ InitPulseVars
  /\ InitEventVars
  /\ InitFacadeVars

NextPatch == PatchRoundTrip

SpecPatch == InitPatch /\ [][NextPatch]_vars

(***************************************************************************)
(* events.js                                                               *)
(***************************************************************************)
MaxListeners == 3

Details == {"d1", "d2"}

\* The callbacks handed to on(): callback p returns, callback u calls
\* off(event, u) on the event it is invoked for and returns, callback t
\* throws.
Callbacks == {"p", "u", "t"}

\* list.indexOf(callback), 0 when absent
RECURSIVE IndexFrom(_, _, _)
IndexFrom(list, callback, i) ==
  IF i > Len(list) THEN 0
  ELSE IF list[i] = callback THEN i
  ELSE IndexFrom(list, callback, i + 1)
indexOf(list, callback) == IndexFrom(list, callback, 1)

\* list.splice(index, 1)
splice(list, index) ==
  [i \in 1..(Len(list) - 1) |-> IF i < index THEN list[i] ELSE list[i + 1]]

\* on(event, callback)
on(ls, event, callback) ==
  [ls EXCEPT ![event] = [has |-> TRUE, v |-> Append(@.v, callback)]]

\* off(event, callback)
off(ls, event, callback) ==
  IF ls[event].has /\ indexOf(ls[event].v, callback) > 0
  THEN [ls EXCEPT ![event].v = splice(@, indexOf(@, callback))]
  ELSE ls

\* cb(detail) inside the try block of emit: the tables after the call, and
\* whether the callback threw
invoke(ls, event, cb) ==
  CASE cb = "u" -> [ls |-> off(ls, event, cb), threw |-> FALSE]
    [] cb = "t" -> [ls |-> ls, threw |-> TRUE]
    [] OTHER -> [ls |-> ls, threw |-> FALSE]

\* A variant of the loop of emit without the try/catch: a throwing callback
\* ends the fan-out.
RECURSIVE forEachListener_NoCatch(_, _, _, _, _, _, _)
forEachListener_NoCatch(ls, event, detail, k, len, calls, logs) ==
  IF k > len THEN [ls |-> ls, calls |-> calls, logs |-> logs, threw |-> FALSE]
  ELSE IF k > Len(ls[event].v)
  THEN forEachListener_NoCatch(ls, event, detail, k + 1, len, calls, logs)
  ELSE LET cb == ls[event].v[k]
           r == invoke(ls, event, cb)
           called == Append(calls, [cb |-> cb, detail |-> detail])
       IN IF r.threw
          THEN [ls |-> r.ls, calls |-> called, logs |-> logs, threw |-> TRUE]
          ELSE forEachListener_NoCatch(r.ls, event, detail, k + 1, len, called, logs)

\* listeners.get(event).forEach(cb => { try { cb(detail) } catch {...} }):
\* Array.prototype.forEach visits the indices 1..len, len being the length
\* of the array when the loop starts, and reads the array, as the callbacks
\* have left it, at each index it reaches; an index past the end of the
\* array is passed over.
RECURSIVE forEachListener(_, _, _, _, _, _, _)
forEachListener(ls, event, detail, k, len, calls, logs) ==
  IF k > len THEN [ls |-> ls, calls |-> calls, logs |-> logs, threw |-> FALSE]
  ELSE IF k > Len(ls[event].v)
  THEN forEachListener(ls, event, detail, k + 1, len, calls, logs)
  ELSE LET cb == ls[event].v[k]
           r == invoke(ls, event, cb)
           called == Append(calls, [cb |-> cb, detail |-> detail])
       IN forEachListener(r.ls, event, detail, k + 1, len, called,
                          IF r.threw THEN logs + 1 ELSE logs)

\* emit(event, detail)
emit(ls, event, detail) ==
  IF ls[event].has
  THEN forEachListener(ls, event, detail, 1, Len(ls[event].v), << >>, 0)
  ELSE [ls |-> ls, calls |-> << >>, logs |-> 0, threw |-> FALSE]

EventOp(name, event, arg, pre, threw) ==
  [op |-> name, el |-> event, arg |-> arg, pre |-> pre, threw |-> threw]

\* Events.on(event, callback)
EventsOn(event, callback) ==
  /\ Len(evListeners[event].v) < MaxListeners
  /\ evListeners' = on(evListeners, event, callback)
  /\ last' = EventOp("Events.on", event, callback, evListeners[event].v, FALSE)
  /\ evCalls' = << >>
  /\ evLogs' = 0
  /\ UNCHANGED << domVars, pulseVars, facadeVars >>

\* Events.off(event, callback)
EventsOff(event, callback) ==
  /\ evListeners' = off(evListeners, event, callback)
  /\ last' = EventOp("Events.off", event, callback, evListeners[event].v, FALSE)
  /\ evCalls' = << >>
  /\ evLogs' = 0
  /\ UNCHANGED << domVars, pulseVars, facadeVars >>

\* Events.emit(event, detail)
EventsEmit(event, detail) ==
  \E r \in {emit(evListeners, event, detail)} :
    /\ evListeners' = r.ls
    /\ evCalls' = r.calls
    /\ evLogs' = r.logs
    /\ last' = EventOp("Events.emit", event, detail, evListeners[event].v, r.threw)
    /\ UNCHANGED << domVars, pulseVars, facadeVars >>

(***************************************************************************)
(* SpecEvents: listeners are registered, removed and notified.             *)
(***************************************************************************)
InitEvents ==
  /\ Holds(LoadedWorld({"A"}, {}))
  /\ last = EventOp("load", "", "", << >>, FALSE)
  /\ InitPulseVars
  /\ InitEventVars
  /\ InitFacadeVars

NextEvents ==
  \/ \E n \in EventNames, c \in Callbacks : EventsOn(n, c)
  \/ \E n \in EventNames, c \in Callbacks : EventsOff(n, c)
  \/ \E n \in EventNames, d \in Details : EventsEmit(n, d)

SpecEvents == InitEvents /\ [][NextEvents]_vars

(***************************************************************************)
(* SpecAction: action pulses triggered from buttons while the cell states  *)
(* change.                                                                 *)
(***************************************************************************)
InitAction ==
  /\ Holds(LoadedWorld({"A"}, {"S"}))
  /\ last = PulseOp("load", 0)
  /\ InitPulseVars
  /\ InitEventVars
  /\ InitFacadeVars

NextAction ==
  \/ \E e \in Elems, p \in Partials : SurfSetState(e, p) /\ UNCHANGED pulseVars
  \/ \E e \in Elems : ClickPulse(e)
  \/ HandleClickResumes
  \/ \E r \in ReqIds, res \in {"reject", "notok", "ok"} : FetchSettles(r, res)
  \/ \E r \in ReqIds, b \in Bodies : TextSettles(r, b)
  \/ \E r \in ReqIds : TextRejects(r)

SpecAction == InitAction /\ [][NextAction]_vars

(***************************************************************************)
(* SpecState: a page whose region main holds the cell with nested state;   *)
(* its buttons are clicked and partial states are set on it.               *)
(***************************************************************************)
StatePartials ==
  { [b |-> Num(2)],
    [a |-> Num(2), b |-> Num(0)],
    [c |-> Num(1)],
    [user |-> Obj([score |-> Num(2)])],
    [user |-> Num(0)],
    EmptyState }

InitState ==
  /\ Holds(LoadedWorld({"U"}, {}))
  /\ last = Op("load", Doc)
  /\ InitPulseVars
  /\ InitEventVars
  /\ InitFacadeVars

NextState ==
  \/ \E e \in Elems : Click(e) /\ UNCHANGED pulseVars
  \/ \E e \in Elems, p \in StatePartials : CellSetState(e, p) /\ UNCHANGED pulseVars
  \/ \E e \in Elems, p \in StatePartials : SurfSetState(e, p) /\ UNCHANGED pulseVars

SpecState == InitState /\ [][NextState]_vars

(***************************************************************************)
(* SpecForm: a page whose region main holds the two forms; fields are      *)
(* edited, forms are submitted, the reset button is clicked, and the event *)
(* loop runs every timer callback that is pending.                         *)
(***************************************************************************)
MaxTimers == 2

InitForm ==
  /\ Holds(LoadedWorld({"F"}, {}))
  /\ last = Op("load", Doc)
  /\ InitPulseVars
  /\ InitEventVars
  /\ InitFacadeVars

NextForm ==
  \/ \E f \in Elems, v \in FieldValues : TypeField(f, v) /\ UNCHANGED pulseVars
  \/ \E f \in Elems : SubmitForm(f) /\ Len(timers') <= MaxTimers
  \/ \E e \in Elems : Click(e) /\ Len(timers') <= MaxTimers /\ UNCHANGED pulseVars
  \/ TimerFires
  \/ \E r \in ReqIds, res \in {"reject", "notok", "ok"} : FetchSettles(r, res)
  \/ \E r \in ReqIds : TextSettles(r, HtmlBody("B"))
  \/ \E r \in ReqIds : TextRejects(r)

SpecForm == InitForm /\ [][NextForm]_vars /\ WF_vars(TimerFires)

(***************************************************************************)
(* SpecHistory: navigations, entries pushed by other code, and back and    *)
(* forward steps through the history of the page of SpecPulse.             *)
(***************************************************************************)
MaxHist == 3

\* The navigate calls in flight, each of which may still push an entry
PendingPushes ==
  Cardinality({ r \in ReqIds : /\ InFlight(reqs[r]) \/ reqs[r].pc = "resume"
                               /\ reqs[r].kind = "navigate" })

\* The page was reloaded: what follows is another run of the program,
\* started by the load of the page.
Reloaded == last.op = "popstate" /\ last.reload

NextHistory ==
  \/ \E u \in Urls, t \in Targets :
       /\ ~Reloaded
       /\ Len(hist) + PendingPushes < MaxHist
       /\ StartPulse("navigate", u, t, Null)
  \/ \E entry \in OtherEntries :
       /\ ~Reloaded
       /\ Len(hist) + PendingPushes < MaxHist
       /\ OtherPush(entry)
  \/ \E i \in 1..MaxHist : ~Reloaded /\ PopState(i)
  \/ \E r \in ReqIds, res \in {"reject", "notok", "ok"} : FetchSettles(r, res)
  \/ \E r \in ReqIds : TextSettles(r, HtmlBody("B"))
  \/ \E r \in ReqIds : TextRejects(r)
  \/ NavigateResumes

SpecHistory == InitPulse /\ [][NextHistory]_vars

(***************************************************************************)
(* SpecSwap: navigations to the two regions of the page of SpecPulse with  *)
(* the swap modes a caller can ask for; the responses are bare fragments.  *)
(***************************************************************************)
SwapModes == {Null, "inner", "outer", "append"}

NextSwap ==
  \/ \E u \in Urls, t \in {"#main", "#side"}, swap \in SwapModes :
       StartPulse("navigate", u, t, swap)
  \/ \E r \in ReqIds, res \in {"reject", "ok"} : FetchSettles(r, res)
  \/ \E r \in ReqIds : TextSettles(r, HtmlBody("B"))
  \/ \E r \in ReqIds : TextRejects(r)
  \/ NavigateResumes

SpecSwap == InitPulse /\ [][NextSwap]_vars

(***************************************************************************)
(* surf.js: Surf.use                                                       *)
(***************************************************************************)
MaxInstalls == 2

\* Whether a plugin list holds an entry of a name: plugins.some(...)
Registered(ps, name) == \E i \in DOMAIN ps : ps[i].name = name

\* A variant of use without the test for an entry of the same name.
use_NoDuplicateTest(ps, plugin, throws) ==
  IF plugin.install # "none"
  THEN IF throws
       THEN [plugins |-> ps, called |-> TRUE, threw |-> TRUE]
       ELSE [plugins |-> Append(ps, [name |-> PluginName(plugin),
                                     plugin |-> plugin.id]),
             called |-> TRUE, threw |-> FALSE]
  ELSE [plugins |-> ps, called |-> FALSE, threw |-> FALSE]

\* use(plugin, options) on the plugin list ps, where throws tells whether
\* this call of plugin.install throws: .plugins is the list afterwards,
\* .called whether install was called, .threw whether the exception left
\* use (otherwise use returned the facade).
use(ps, plugin, throws) ==
  IF plugin.install # "none"
  THEN IF Registered(ps, PluginName(plugin))
       THEN [plugins |-> ps, called |-> FALSE, threw |-> FALSE]
       ELSE IF throws
            THEN [plugins |-> ps, called |-> TRUE, threw |-> TRUE]
            ELSE [plugins |-> Append(ps, [name |-> PluginName(plugin),
                                          plugin |-> plugin.id]),
                  called |-> TRUE, threw |-> FALSE]
  ELSE [plugins |-> ps, called |-> FALSE, threw |-> FALSE]

\* Surf.use(plugin)
SurfUse(plugin, throws) ==
  /\ throws => plugin.install = "may throw"
  /\ installs[PluginName(plugin)].calls < MaxInstalls
  /\ \E u \in {use(plugins, plugin, throws)} :
       /\ plugins' = u.plugins
       /\ installs' =
            [installs EXCEPT ![PluginName(plugin)] =
               [calls |-> @.calls + (IF u.called THEN 1 ELSE 0),
                returned |-> @.returned
                             + (IF u.called /\ ~u.threw THEN 1 ELSE 0)]]
       /\ last' = [ op |-> "Surf.use", el |-> plugin.id, plugin |-> plugin,
                    called |-> u.called, threw |-> u.threw,
                    returned |-> IF u.threw THEN "exception" ELSE "Surf" ]
  /\ UNCHANGED << domVars, pulseVars, eventVars, topLoader, autoRefresh >>

(***************************************************************************)
(* SpecPlugins: plugins are handed to Surf.use in any order, any number of *)
(* times.                                                                  *)
(***************************************************************************)
InitPlugins ==
  /\ Holds(LoadedWorld({"A"}, {}))
  /\ last = Op("load", Doc)
  /\ InitPulseVars
  /\ InitEventVars
  /\ InitFacadeVars

NextPlugins ==
  \E p \in PluginObjects, throws \in BOOLEAN : SurfUse(p, throws)

SpecPlugins == InitPlugins /\ [][NextPlugins]_vars

(***************************************************************************)
(* The auto-refresh plugin (plugins/auto-refresh.js).  Time passes in      *)
(* steps of TickMs; the intervals of the page are multiples of it.  A      *)
(* timer record holds the surface (.el), whether that element object is    *)
(* still in the document, the calls of fetch made for it (.requests),      *)
(* those not settled (.pending) and the responses whose body is awaited    *)
(* (.reading).  .due tells that the interval has elapsed and the callback   *)
(* of the timer has not run yet: each callback is a task of its own.       *)
(* .mutations are the added nodes the MutationObserver has recorded and    *)
(* not yet delivered to its callback.  A run covers MaxTicks steps of the  *)
(* clock and MaxPageCalls direct calls of the Surface functions by scripts *)
(* of the page after the install: every such call can leave the record of  *)
(* a timer behind, and the records are kept.  The server answers          *)
(* MaxResponses of the polls; the others stay unanswered.                  *)
(***************************************************************************)
TickMs == 1000
MaxTicks == 3
MaxPageCalls == 2
MaxResponses == 1

\* parseInt(intervalStr), for the attribute values of the page
parseInt(str) ==
  CASE str = "1000" -> Num(1000)
    [] str = "2000" -> Num(2000)
    [] OTHER -> NaN

\* refreshSurface(surface, url), up to the await of fetch, on the timer
\* record of the surface
refreshSurface(p) ==
  IF ~p.connected THEN p
  ELSE [p EXCEPT !.requests = @ + 1, !.pending = @ + 1]

\* initializedSurfaces.has(surface), for an element of the document: the
\* WeakSet holds element objects, and the object of a removed element
\* never returns to the document
HasInitialized(ar, surface) ==
  \E i \in DOMAIN ar.polls :
    ar.polls[i].el = surface /\ ar.polls[i].connected

\* The timer record of a surface at the end of the forEach callback
NewPoll(ar, surface) ==
  LET parsed == parseInt(AutoRefreshAttr[surface])
      interval == IF Truthy(parsed) THEN parsed.v ELSE 3000
      p == [ el |-> surface, connected |-> TRUE, interval |-> interval,
             since |-> ar.now, requests |-> 0, pending |-> 0,
             reading |-> 0, due |-> FALSE, cleared |-> FALSE ]
  IN IF ar.skipInitial # TRUE THEN refreshSurface(p) ELSE p

\* A variant of the forEach callback without the test of the WeakSet.
initSurface_NoWeakSet(ar, surface) ==
  [ar EXCEPT !.polls = Append(@, NewPoll(ar, surface))]

\* the forEach callback of initAutoRefresh
initSurface(ar, surface) ==
  IF HasInitialized(ar, surface) THEN ar
  ELSE [ar EXCEPT !.polls = Append(@, NewPoll(ar, surface))]

RECURSIVE initSurfaces(_, _)
initSurfaces(ar, surfaces) ==
  IF surfaces = << >> THEN ar
  ELSE initSurfaces(initSurface(ar, Head(surfaces)), Tail(surfaces))

\* initAutoRefresh(root) on the document w
initAutoRefresh(ar, w, root) ==
  initSurfaces(ar, QuerySelectorAll(w, root,
                      { e \in Elems : AutoRefreshAttr[e] # NoAttr }))

\* the callback of setInterval
intervalFires(p) ==
  IF ~p.connected THEN [p EXCEPT !.cleared = TRUE]
  ELSE refreshSurface(p)

\* The timer p fires when the clock reaches now
Due(p, now) ==
  ~p.cleared /\ now > p.since /\ (now - p.since) % p.interval = 0

\* The clock advances by TickMs: the callbacks of the timers whose
\* interval has elapsed wait for their turn
advance(ar) ==
  LET now == ar.now + TickMs IN
  [ar EXCEPT !.now = now,
             !.polls = [i \in DOMAIN ar.polls |->
                          IF Due(ar.polls[i], now)
                          THEN [ar.polls[i] EXCEPT !.due = TRUE]
                          ELSE ar.polls[i]]]

\* The elements in removed left the document
disconnect(ar, removed) ==
  [ar EXCEPT !.polls = [i \in DOMAIN ar.polls |->
                          IF ar.polls[i].el \in removed
                          THEN [ar.polls[i] EXCEPT !.connected = FALSE]
                          ELSE ar.polls[i]],
             !.mutations = [i \in DOMAIN ar.mutations |->
                              IF ar.mutations[i].node \in removed
                              THEN [ar.mutations[i] EXCEPT !.attached = FALSE]
                              ELSE ar.mutations[i]]]

\* node.parentElement || document, for a recorded node that carries the
\* attribute; a node that has left the document has no parent
RootOf(rec) == IF rec.attached THEN Parent[rec.node] ELSE Doc

\* the callback of the MutationObserver, for the recorded nodes given.
\* No fragment of the page has an element with the attribute below one
\* without it, so the scan of a node without the attribute that has left
\* the document finds nothing.
RECURSIVE observe(_, _, _)
observe(ar, w, records) ==
  IF records = << >> THEN ar
  ELSE IF AutoRefreshAttr[Head(records).node] # NoAttr
  THEN observe(initAutoRefresh(ar, w, RootOf(Head(records))), w,
               Tail(records))
  ELSE IF Head(records).attached
  THEN observe(initAutoRefresh(ar, w, Head(records).node), w, Tail(records))
  ELSE observe(ar, w, Tail(records))

\* Surf.use(AutoRefresh, options): install(Surf, options)
UseAutoRefresh(skipInitial) ==
  /\ ~autoRefresh.installed
  /\ autoRefresh' =
       initAutoRefresh([autoRefresh EXCEPT !.installed = TRUE,
                                           !.skipInitial = skipInitial],
                       World, Doc)
  /\ plugins' = Append(plugins, [name |-> "SurfAutoRefresh",
                                  plugin |-> "autoRefresh"])
  /\ last' = Op("AutoRefresh.install", Doc)
  /\ UNCHANGED << domVars, pulseVars, eventVars, installs, topLoader >>

\* TickMs pass, whether or not the polls issued so far were answered.
\* The callbacks of the timers that were due have run by then (a callback
\* takes far less than TickMs), and the callback of the MutationObserver
\* is a microtask, so it runs before the next task does.
Tick ==
  /\ autoRefresh.installed
  /\ autoRefresh.now < MaxTicks * TickMs
  /\ autoRefresh.mutations = << >>
  /\ \A i \in DOMAIN autoRefresh.polls : ~autoRefresh.polls[i].due
  /\ autoRefresh' = advance(autoRefresh)
  /\ last' = Op("tick", Doc)
  /\ UNCHANGED << domVars, pulseVars, eventVars, plugins, installs,
                  topLoader >>

\* The callback of one timer that is due runs, as a task of its own: the
\* callbacks of the timers due at the same time run one after the other,
\* and other tasks of the page may run between two of them.
IntervalRuns(i) ==
  /\ i \in DOMAIN autoRefresh.polls
  /\ autoRefresh.polls[i].due
  /\ autoRefresh.mutations = << >>
  /\ autoRefresh' =
       [autoRefresh EXCEPT
          !.polls[i] = intervalFires([@ EXCEPT !.due = FALSE])]
  /\ last' = Op("setInterval", autoRefresh.polls[i].el)
  /\ UNCHANGED << domVars, pulseVars, eventVars, plugins, installs,
                  topLoader >>

\* The children a fragment adds to a surface
ChildrenOf(surface, html) ==
  SelectSeq(FragmentOrder(html), LAMBDA e : Parent[e] = surface)

\* mutation.addedNodes: the records of these children
AddedNodes(surface, html) ==
  [ i \in DOMAIN ChildrenOf(surface, html) |->
      [node |-> ChildrenOf(surface, html)[i], attached |-> TRUE] ]

\* The plugin after the call fn of Surface.replace, Surface.append or
\* Surface.prepend on the document w: the children a replacement removes
\* leave the document, and the MutationObserver, once installed, records
\* the children added to the surface.  Its callback runs later.
Recorded(ar, w, fn) ==
  IF ~ar.installed THEN ar
  ELSE LET removed == IF fn.fn = "replace"
                      THEN DescendantsOf(w, fn.surface) ELSE {}
       IN [disconnect(ar, removed) EXCEPT
             !.mutations = @ \o AddedNodes(fn.surface, fn.html)]

\* A script of the page calls Surface.replace(surface, html),
\* Surface.append(surface, html) or Surface.prepend(surface, html)
\* directly: no state is preserved and nothing is initialised.  Several
\* calls can follow one another before the callback of the
\* MutationObserver runs.
PageCalls(fn) ==
  /\ fn.surface \in Surfaces \cap inDom
  /\ fn \in MutationsOf(fn.surface)
  /\ autoRefresh.installed => autoRefresh.calls < MaxPageCalls
  /\ SetDocument(Call(World, fn))
  /\ autoRefresh' =
       [Recorded(autoRefresh, World, fn) EXCEPT
          !.calls = IF autoRefresh.installed THEN @ + 1 ELSE @]
  /\ last' = Op("Surface." \o fn.fn, fn.surface)
  /\ UNCHANGED << pulseVars, eventVars, plugins, installs, topLoader >>

\* The callback of the MutationObserver runs, as a microtask, with every
\* record made since it last ran.
ObserverRuns ==
  /\ autoRefresh.mutations # << >>
  /\ autoRefresh' = observe([autoRefresh EXCEPT !.mutations = << >>],
                            World, autoRefresh.mutations)
  /\ last' = Op("MutationObserver", Doc)
  /\ UNCHANGED << domVars, pulseVars, eventVars, plugins, installs,
                  topLoader >>

\* Surf.emit('pulse:end', detail): the listener of the plugin scans the
\* document again
SurfEmitPulseEnd ==
  /\ autoRefresh.installed
  /\ SetDocument(Emit(World, "pulse:end", Doc))
  /\ autoRefresh' = initAutoRefresh(autoRefresh, World, Doc)
  /\ last' = Op("Surf.emit", Doc)
  /\ UNCHANGED << pulseVars, eventVars, plugins, installs, topLoader >>

\* Bodies of the responses of the server to a poll
RefreshBodies == { HtmlBody("B"), PatchBody(<< Region("#gone", "B") >>) }

\* catch (e) { console.error('[Surf] Auto-refresh failed:', e) }, for the
\* result r of a call that may have thrown
Caught(r, el) == IF r.threw THEN Emit(r.w, "console.error", el) ELSE r.w

\* The promise of fetch of a poll settles: a rejection is caught and
\* logged, a status that is not ok ends the call, otherwise the call
\* awaits response.text()
RefreshFetchSettles(i, result) ==
  /\ i \in DOMAIN autoRefresh.polls
  /\ autoRefresh.polls[i].pending > 0
  /\ autoRefresh.responses < MaxResponses
  /\ autoRefresh.mutations = << >>
  /\ SetDocument(IF result = "reject"
                 THEN Emit(World, "console.error", autoRefresh.polls[i].el)
                 ELSE World)
  /\ autoRefresh' =
       [autoRefresh EXCEPT
          !.responses = @ + 1,
          !.polls[i].pending = @ - 1,
          !.polls[i].reading = IF result = "ok" THEN @ + 1 ELSE @]
  /\ last' = Op("refresh:" \o result, autoRefresh.polls[i].el)
  /\ UNCHANGED << pulseVars, eventVars, plugins, installs, topLoader >>

\* refreshSurface after `await response.text()`, on the document w: a body
\* that holds '<d-patch>' (the bodies of the model that are patches) goes
\* to Surf.applyPatch, a fragment to Echo.withPreservation, which is
\* called with the surface and one callback; an exception is caught and
\* logged.  For a surface that has left the document the call of
\* withPreservation works on the detached subtree and ends the same way.
refreshSurfaceResponds(w, p, body) ==
  IF isPatch(body) THEN Caught(Surf_applyPatch(w, body), p.el)
  ELSE IF p.connected
  THEN Caught(withPreservation(w, p.el, ReplaceFn(p.el, body.html),
                               NotAFunction),
              p.el)
  ELSE Emit(w, "console.error", p.el)

\* The plugin after a response was handled with the events of w: its
\* listener of pulse:end scans the document again
AfterResponse(ar, w) ==
  IF \E k \in DOMAIN w.emitted : w.emitted[k].name = "pulse:end"
  THEN initAutoRefresh(ar, w, Doc)
  ELSE ar

\* The promise of response.text() of a poll settles
RefreshTextSettles(i, body) ==
  /\ i \in DOMAIN autoRefresh.polls
  /\ autoRefresh.polls[i].reading > 0
  /\ autoRefresh.mutations = << >>
  /\ \E w \in {refreshSurfaceResponds(World, autoRefresh.polls[i], body)} :
       /\ SetDocument(w)
       /\ autoRefresh' =
            AfterResponse([autoRefresh EXCEPT !.polls[i].reading = @ - 1], w)
  /\ last' = Op("refresh:text", autoRefresh.polls[i].el)
  /\ UNCHANGED << pulseVars, eventVars, plugins, installs, topLoader >>

(***************************************************************************)
(* SpecRefresh: a page whose region main holds the cell A and whose region *)
(* side holds the cell S installs the auto-refresh plugin, with or without *)
(* the option skipInitial; time passes, the timers that are due run one    *)
(* by one, polls are answered, scripts replace the content of main, append *)
(* or prepend a fragment to it, empty side, and emit pulse:end.  The fetch *)
(* of a poll and the reading of its body settle in separate steps, and so  *)
(* do a change of the document and the callback of the observer.           *)
(***************************************************************************)
InitRefresh ==
  /\ Holds(LoadedWorld({"A"}, {"S"}))
  /\ last = Op("load", Doc)
  /\ InitPulseVars
  /\ InitEventVars
  /\ InitFacadeVars

NextRefresh ==
  \/ \E skipInitial \in BOOLEAN : UseAutoRefresh(skipInitial)
  \/ Tick
  \/ \E i \in DOMAIN autoRefresh.polls : IntervalRuns(i)
  \/ \E fn \in MutationsOf("main") : autoRefresh.installed /\ PageCalls(fn)
  \/ autoRefresh.installed /\ PageCalls(ReplaceFn("side", ""))
  \/ SurfEmitPulseEnd
  \/ ObserverRuns
  \/ \E i \in DOMAIN autoRefresh.polls, res \in {"reject", "notok", "ok"} :
       RefreshFetchSettles(i, res)
  \/ \E i \in DOMAIN autoRefresh.polls, b \in RefreshBodies :
       RefreshTextSettles(i, b)

SpecRefresh == InitRefresh /\ [][NextRefresh]_vars

(***************************************************************************)
(* SpecLoader: the requests of SpecPulse against a page that has           *)
(* installed the top-loader plugin.  The delays of the timers are options  *)
(* of the plugin, so pending timers fire in any order; every pending timer *)
(* fires at some time.                                                     *)
(***************************************************************************)
LoaderTimers == {"show", "remaining", "complete", "fade"}

\* A pending timer of the loader fires
LoaderTimerFires(kind) ==
  /\ CASE kind = "show" ->
            topLoader.timerId /\ topLoader' = showTimerFires(topLoader)
       [] kind = "remaining" ->
            topLoader.remaining > 0
            /\ topLoader' = remainingTimerFires(topLoader)
       [] kind = "complete" ->
            topLoader.completing > 0
            /\ topLoader' = completeTimerFires(topLoader)
       [] kind = "fade" ->
            topLoader.fading > 0 /\ topLoader' = fadeTimerFires(topLoader)
  /\ last' = PulseOp("loader:" \o kind, 0)
  /\ UNCHANGED << domVars, pulseVars, eventVars, plugins, installs,
                  autoRefresh >>

\* Surf.use(TopLoader) was called on the loaded page
InitLoader ==
  /\ Holds(LoadedWorld({"A"}, {"S"}))
  /\ last = PulseOp("load", 0)
  /\ InitPulseVars
  /\ InitEventVars
  /\ plugins = << [name |-> "SurfTopLoader", plugin |-> "loader"] >>
  /\ installs = [n \in PluginNames |-> [calls |-> 0, returned |-> 0]]
  /\ topLoader = [LoaderState EXCEPT !.installed = TRUE]
  /\ autoRefresh = NotPolling

NextLoader ==
  \/ \E t \in Targets : StartPulse("refresh", loc, t, Null)
  \/ \E r \in ReqIds, res \in {"reject", "notok", "ok"} : FetchSettles(r, res)
  \/ \E r \in ReqIds : TextSettles(r, HtmlBody("B"))
  \/ \E r \in ReqIds : TextRejects(r)
  \/ UNCHANGED pulseVars /\ SurfApplyPatch(PatchBody(<< Region("#gone", "B") >>))
  \/ \E k \in LoaderTimers : LoaderTimerFires(k)

SpecLoader ==
  /\ InitLoader
  /\ [][NextLoader]_vars
  /\ \A k \in LoaderTimers : WF_vars(LoaderTimerFires(k))

(***************************************************************************)
(* SpecBinding: a page whose region main holds the counter cell A and the  *)
(* outer cell O with its nested cell; the elements tA, tO and tI carry a   *)
(* text, a visibility and an attribute binding, all three on count.  The   *)
(* state of A or of O is set, also to one whose count is undefined, and    *)
(* the bindings of the cell are refreshed.                                 *)
(***************************************************************************)
BindingPartials == Partials \cup { [count |-> Undefined] }
BindingCells == {"cA", "cO"}

InitBinding ==
  /\ Holds(LoadedWorld({"A", "O"}, {}))
  /\ last = Op("load", Doc)
  /\ InitPulseVars
  /\ InitEventVars
  /\ InitFacadeVars

NextBinding ==
  \/ \E e \in BindingCells, p \in BindingPartials :
        CellSetState(e, p) /\ UNCHANGED pulseVars
  \/ \E e \in BindingCells, p \in BindingPartials :
        SurfSetState(e, p) /\ UNCHANGED pulseVars
  \/ \E e \in BindingCells : UpdateBindings(e) /\ UNCHANGED pulseVars

SpecBinding == InitBinding /\ [][NextBinding]_vars

(***************************************************************************)
(* SpecClicks: a page whose region main holds the counter cell A and the   *)
(* cell M with the clamping buttons.  Buttons are clicked, and the counter *)
(* of M is set to other numbers by Cell.setState.  last.clicks counts the  *)
(* clicks on the button of A.                                              *)
(***************************************************************************)
MaxClicks == 3
StartCounts == {-3, 3, 7}

\* A step record that carries the number of clicks on the button of A and
\* the counter M held before the step
Counted(n, name, el) ==
  [clicks |-> n, held |-> cellStates["cM"].v["count"]] @@ Op(name, el)

\* A click on an element, counted when it is the button of A
ClickCounted(e) ==
  /\ e \in SignalElsInDom
  /\ e = "bA" => last.clicks < MaxClicks
  /\ Install(dispatchEvent(World, e, "click"))
  /\ last' = Counted(IF e = "bA" THEN last.clicks + 1 ELSE last.clicks,
                     "click", e)
  /\ UNCHANGED pulseVars

\* Cell.setState(M, { count: n })
StartAt(n) ==
  /\ "cM" \in inDom
  /\ cellStates["cM"].v["count"] # Num(n)
  /\ Install(setState(World, "cM", [count |-> Num(n)]))
  /\ last' = Counted(last.clicks, "Cell.setState", "cM")
  /\ UNCHANGED pulseVars

InitClicks ==
  /\ Holds(LoadedWorld({"A", "M"}, {}))
  /\ last = Counted(0, "load", Doc)
  /\ InitPulseVars
  /\ InitEventVars
  /\ InitFacadeVars

NextClicks ==
  \/ \E e \in Elems : ClickCounted(e)
  \/ \E n \in StartCounts : StartAt(n)

SpecClicks == InitClicks /\ [][NextClicks]_vars

(***************************************************************************)
(* SpecFaulty: a page whose region main holds the counter cell A.  The     *)
(* author gives its button statements that cannot be executed, or the      *)
(* counting statement; the event-bindings are bound again, the button is   *)
(* clicked and the state of the cell is set.                               *)
(***************************************************************************)
FaultyStatements ==
  { "this.ghost()", "event.ghost()", "Ghost.method()", "Pulse.ghost()",
    "data = {invalid}", "count +" }
FaultyTexts ==
  { "click: this.ghost()", "click: event.ghost()", "click: Ghost.method()",
    "click: Pulse.ghost()", "click: data = {invalid}", "click: count +" }

InitFaulty ==
  /\ Holds(LoadedWorld({"A"}, {}))
  /\ last = Op("load", Doc)
  /\ InitPulseVars
  /\ InitEventVars
  /\ InitFacadeVars

NextFaulty ==
  \/ \E v \in FaultyTexts \cup {"click: count = count + 1"} :
        SetSignalAttribute("bA", v) /\ UNCHANGED pulseVars
  \/ SignalInitAll("main") /\ UNCHANGED pulseVars
  \/ \E e \in Elems : Click(e) /\ UNCHANGED pulseVars
  \/ \E p \in Partials : SurfSetState("cA", p) /\ UNCHANGED pulseVars

SpecFaulty == InitFaulty /\ [][NextFaulty]_vars

(***************************************************************************)
(* SpecAssign: executeAssignment and evaluate as functions.  A state       *)
(* object is given; statements are executed and expressions evaluated on   *)
(* it, each call on the object as the call before left it.  last holds the *)
(* arguments and the result of the call.                                   *)
(***************************************************************************)
MaxCalls == 3

AssignStates ==
  { EmptyState,
    [count |-> Num(0)],
    [count |-> Num(5)],
    [count |-> Str("5")],
    [a |-> Num(1), b |-> Num(2)],
    [b |-> Num(2)],
    [a |-> Undefined, b |-> Num(2)],
    [other |-> Num(1)],
    [bonus |-> Num(2), total |-> Num(1)],
    [bonus |-> Num(0)],
    [bonus |-> Str("test")],
    [bonus |-> Str("5")],
    [bonus |-> Str("")],
    [bonus |-> Bool(TRUE)],
    [bonus |-> Bool(FALSE)],
    [bonus |-> Obj(EmptyState)],
    [user |-> Obj([score |-> Num(0),
                   stats |-> Obj([wins |-> Num(0), level |-> Num(1)])])],
    [user |-> Obj([score |-> Num(0)])] }

AssignStatements ==
  { "count = count + 1", "count = 2", "total = bonus + 10",
    "total = bonus - 10", "b = a", "other = ghost",
    "user.score = user.score + 1", "user.stats.wins = user.stats.wins + 1",
    "data = {a: 1}", "data = {invalid}" }

EvaluateExprs == { "count == 5", "count != 5", "count", "ghost", "5" }

\* A call record: the number of calls so far, the expression, the state
\* object before and after the call, and what the call returned
Called(name, n, expr, state, stateAfter, changes, threw, value) ==
  [ calls |-> n, expr |-> expr, state |-> state, stateAfter |-> stateAfter,
    changes |-> changes, threw |-> threw, value |-> value ]
  @@ Op(name, Doc)

InitAssign ==
  /\ Holds(LoadedWorld({}, {}))
  /\ last \in { Called("given", 0, "", s, s, EmptyState, FALSE, Undefined) :
                  s \in AssignStates }
  /\ InitPulseVars
  /\ InitEventVars
  /\ InitFacadeVars

\* executeAssignment(expr, state, event, element) on the state object
ExecuteAssignment(expr) ==
  /\ last.calls < MaxCalls
  /\ \E r \in { executeAssignment(expr, last.stateAfter, "main") } :
       last' = Called("executeAssignment", last.calls + 1, expr,
                      last.stateAfter, r.state, r.changes, r.threw, Undefined)
  /\ UNCHANGED << domVars, pulseVars, eventVars, facadeVars >>

\* evaluate(expr, state) on the state object
Evaluate(expr) ==
  /\ last.calls < MaxCalls
  /\ last' = Called("evaluate", last.calls + 1, expr, last.stateAfter,
                    last.stateAfter, EmptyState, FALSE,
                    evaluate(expr, last.stateAfter))
  /\ UNCHANGED << domVars, pulseVars, eventVars, facadeVars >>

NextAssign ==
  \/ \E expr \in AssignStatements : ExecuteAssignment(expr)
  \/ \E expr \in EvaluateExprs : Evaluate(expr)

SpecAssign == InitAssign /\ [][NextAssign]_vars

(***************************************************************************)
(* SpecEcho: cells, their identity-key store and preservation passes over  *)
(* region main.                                                            *)
(***************************************************************************)
InitEcho ==
  /\ Holds(LoadedWorld({"A", "N"}, {}))
  /\ last = Op("load", Doc)
  /\ InitPulseVars
  /\ InitEventVars
  /\ InitFacadeVars

NextEcho ==
  \/ \E e \in Elems : CellInit(e) /\ UNCHANGED pulseVars
  \/ \E e \in Elems, p \in Partials : SurfSetState(e, p) /\ UNCHANGED pulseVars
  \/ \E k \in Keys : ClearPreserved(k) /\ UNCHANGED pulseVars
  \/ CellInitAll("main") /\ UNCHANGED pulseVars
  \/ \E fn \in MutationsOf("main") :
        WithPreservation2("main", fn) /\ UNCHANGED pulseVars
  \/ \E fn \in MutationsOf("main") :
        WithPreservation3("main", fn) /\ UNCHANGED pulseVars
  \/ EchoBefore("main") /\ UNCHANGED pulseVars
  \/ \E snap \in Snapshots : EchoAfter("main", snap) /\ UNCHANGED pulseVars
  \/ \E snap \in Snapshots : CellRestore(snap) /\ UNCHANGED pulseVars
  \/ \E fn \in MutationsOf("main") : PageCalls(fn)

SpecEcho == InitEcho /\ [][NextEcho]_vars

(***************************************************************************)
(* SpecStore: the identity-key store on a page whose region main holds the *)
(* cell A and whose region side holds the cell S.  Preservation passes run *)
(* over either region; Echo.before and Echo.after are also called on their *)
(* own, on a region or on the Cell element A itself, with snapshots that   *)
(* hold the keys of cells inside and outside the element handed in.        *)
(***************************************************************************)
StoreRoots == {"main", "side", "cA"}

\* The callbacks of SpecStore: A is replaced by itself or by B, the cell
\* of the same key, and S is replaced by itself.
StoreMutations(root) ==
  MutationsOf(root)
  \cap { ReplaceFn("main", "A"), ReplaceFn("main", "B"), ReplaceFn("side", "S") }

InitStore ==
  /\ Holds(LoadedWorld({"A"}, {"S"}))
  /\ last = Op("load", Doc)
  /\ InitPulseVars
  /\ InitEventVars
  /\ InitFacadeVars

NextStore ==
  \/ \E e \in Elems : CellInit(e) /\ UNCHANGED pulseVars
  \/ \E e \in Elems, p \in StorePartials :
        SurfSetState(e, p) /\ UNCHANGED pulseVars
  \/ \E k \in Keys : ClearPreserved(k) /\ UNCHANGED pulseVars
  \/ \E root \in Surfaces : \E fn \in StoreMutations(root) :
        WithPreservation2(root, fn) /\ UNCHANGED pulseVars
  \/ \E root \in Surfaces : \E fn \in StoreMutations(root) :
        WithPreservation3(root, fn) /\ UNCHANGED pulseVars
  \/ \E root \in StoreRoots : EchoBefore(root) /\ UNCHANGED pulseVars
  \/ \E root \in StoreRoots, snap \in StoreSnapshots :
        EchoAfter(root, snap) /\ UNCHANGED pulseVars
  \/ \E snap \in StoreSnapshots : CellRestore(snap) /\ UNCHANGED pulseVars
  \/ \E root \in Surfaces : \E fn \in StoreMutations(root) : PageCalls(fn)

SpecStore == InitStore /\ [][NextStore]_vars

(***************************************************************************)
(* SpecSignal: bindings and event listeners on a page whose region main    *)
(* holds an outer cell with a nested inner cell.                           *)
(***************************************************************************)
InitSignal ==
  /\ Holds(LoadedWorld({"O"}, {}))
  /\ last = Op("load", Doc)
  /\ InitPulseVars
  /\ InitEventVars
  /\ InitFacadeVars

NextSignal ==
  \/ \E e \in Elems, p \in Partials : CellSetState(e, p) /\ UNCHANGED pulseVars
  \/ \E e \in Elems : UpdateBindings(e) /\ UNCHANGED pulseVars
  \/ \E v \in SignalTexts : SetSignalAttribute("bO", v) /\ UNCHANGED pulseVars
  \/ \E c \in Elems \cup {Doc} : SignalInitAll(c) /\ UNCHANGED pulseVars
  \/ \E c \in Elems \cup {Doc} : SignalCleanup(c) /\ UNCHANGED pulseVars
  \/ \E e \in Elems : Click(e) /\ UNCHANGED pulseVars

SpecSignal == InitSignal /\ [][NextSignal]_vars


(***************************************************************************)
(* Claims checked under SpecEcho                                           *)
(***************************************************************************)
EchoCall == last.op \in {"withPreservation/2", "withPreservation/3"}

\* The cells that were under the root of the last withPreservation call
PreCellsUnderRoot ==
  { e \in last.preDom : HasCellAttr(e) /\ IsAncestor(last.el, e) }

\* C1: after withPreservation(root, mutate), where mutate replaces the
\* content of root and so destroys a keyed Cell element and creates a Cell
\* element with the same key, the new element is in the document and its
\* state is the state the old element had immediately before the call.
C1_StateSurvivesReplacement ==
  (EchoCall /\ last.fn.fn = "replace") =>
    \A old \in PreCellsUnderRoot :
      \A new \in ContentElems(last.fn.html) :
        (HasCellAttr(new) /\ getCellId(old) # NoAttr
           /\ getCellId(new) = getCellId(old))
        => /\ new \in inDom
           /\ cellStates[new].has
           /\ cellStates[new].v = last.pre[old].v

\* C9: for every initialised Cell element of the document that has an
\* identity key k, the identity-key store has an entry for k that equals
\* the element's live state.
C9_StoreInLockstep ==
  \A e \in inDom :
    (HasCellAttr(e) /\ cellStates[e].has /\ getCellId(e) # NoAttr)
    => /\ cellIdStates[getCellId(e)].has
       /\ cellIdStates[getCellId(e)].v = cellStates[e].v

\* The entry of the identity-key store for the key of the Cell element e,
\* where e is an initialised Cell element of the document and the store
\* has an entry, equals the live state of e
EntryEqual(e) ==
  (e \in inDom /\ HasCellAttr(e) /\ cellStates[e].has /\ getCellId(e) # NoAttr
     /\ cellIdStates[getCellId(e)].has)
  => cellIdStates[getCellId(e)].v = cellStates[e].v

EntriesEqualLiveStates == \A e \in Elems : EntryEqual(e)

\* After the step the keyed Cell element e is initialised and the store
\* holds its live state
EntryWritten(e) ==
  getCellId(e) # NoAttr
  => /\ cellStates'[e].has
     /\ cellIdStates'[getCellId(e)] = cellStates'[e]

\* The step wrote the store from a snapshot and did not initialise e:
\* Cell.restore on its own, or Echo.after on an element that e is not
\* below
WroteStoreAlone(e) ==
  \/ last'.op = "Cell.restore"
  \/ last'.op = "Echo.after" /\ ~IsAncestor(last'.el, e)

\* C9 as amended: the entry of the store for the key of an initialised
\* Cell element of the document, where there is one, equals the live
\* state of the element after the page is loaded; Cell.init and setState
\* write both for their element; Echo.after(root, snap) and a completed
\* withPreservation over root write both for every Cell element below
\* root; every other operation keeps an entry that equals the live state
\* equal to it, except Cell.restore called on its own and Echo.after for
\* a Cell element that is not below root (root itself included), which
\* write the store alone (clearPreserved removes the entry of a live
\* Cell).
C9_StoreEntryEqualsLiveState ==
  /\ EntriesEqualLiveStates
  /\ [][ /\ last'.op \in {"Cell.init", "Surf.setState"}
              => EntryWritten(last'.el)
         /\ last'.op \in {"Echo.after", "withPreservation/3"}
              => \A e \in inDom' :
                   (HasCellAttr(e) /\ IsAncestor(last'.el, e))
                   => EntryWritten(e)
         /\ \A e \in Elems :
              (EntryEqual(e) /\ ~WroteStoreAlone(e)) => EntryEqual(e)' ]_vars

\* C9 witness: a preservation pass over region main replaced the keyed
\* Cell A, whose state had been changed away from its seed, by the Cell B
\* of the same key; the new element and the store entry hold that state,
\* and the entry of the Cell S outside the region equals its live state.
C9_Witness ==
  /\ last.op = "withPreservation/3"
  /\ last.el = "main"
  /\ "cB" \in inDom /\ "cA" \notin inDom
  /\ cellStates["cB"] = Some([count |-> Num(2)])
  /\ cellIdStates["k"] = Some([count |-> Num(2)])
  /\ cellStates["cS"] = Some([count |-> Num(1)])
  /\ cellIdStates["s"] = Some([count |-> Num(1)])

\* Echo.after over region side with a snapshot that holds the key of the
\* Cell A in region main: the store entry differs from the live state.
EntryDiffersOutsideRoot ==
  /\ last.op = "Echo.after"
  /\ last.el = "side"
  /\ cellStates["cA"] = Some([count |-> Num(0)])
  /\ cellIdStates["k"] = Some([count |-> Num(2)])

\* Echo.after on the Cell element A itself: the element is not initialised
\* again, and the store entry differs from its live state.
EntryDiffersForRoot ==
  /\ last.op = "Echo.after"
  /\ last.el = "cA"
  /\ cellStates["cA"] = Some([count |-> Num(0)])
  /\ cellIdStates["k"] = Some([count |-> Num(2)])

\* C10: a Cell element that is still the same element after a completed
\* withPreservation pass over a root containing it (the callback inserted
\* content and removed nothing) has the state it had before the pass,
\* with or without an identity key.
C10_SurvivorKeepsState ==
  (EchoCall /\ ~last.threw /\ last.fn.fn \in {"append", "prepend"}) =>
    \A e \in PreCellsUnderRoot :
      /\ e \in inDom
      /\ cellStates[e].has
      /\ cellStates[e].v = last.pre[e].v

\* The preservation law for passes that ran to completion (callback passed
\* as the third argument)
EchoLawWhenCompleted ==
  (EchoCall /\ ~last.threw /\ last.fn.fn = "replace") =>
    \A old \in PreCellsUnderRoot :
      \A new \in ContentElems(last.fn.html) :
        (HasCellAttr(new) /\ getCellId(old) # NoAttr
           /\ getCellId(new) = getCellId(old))
        => /\ new \in inDom
           /\ cellStates[new].has
           /\ cellStates[new].v = last.pre[old].v

\* A keyed survivor keeps its state over a completed pass.
KeyedSurvivorKeepsState ==
  (EchoCall /\ ~last.threw /\ last.fn.fn \in {"append", "prepend"}) =>
    \A e \in PreCellsUnderRoot :
      getCellId(e) # NoAttr =>
        /\ e \in inDom
        /\ cellStates[e].has
        /\ cellStates[e].v = last.pre[e].v


(***************************************************************************)
(* Claims checked under SpecSignal                                         *)
(***************************************************************************)
\* The elements carrying a d-signal attribute at or under a container
SignalElsAtOrUnder(c) ==
  { e \in inDom : sigAttr[e] # NoAttr /\ (c = Doc \/ e = c \/ IsAncestor(c, e)) }

\* C5: after Signal.initAll, the listeners on an element carrying d-signal
\* are exactly those of the statements of its current attribute value,
\* once each: a click runs no statement of an earlier attribute value.
C5_OnlyCurrentStatements ==
  last.op = "Signal.initAll" =>
    \A e \in SignalElsAtOrUnder(last.el) :
      listeners[e] = NewListeners(e, sigAttr[e])

\* C6: after Signal.cleanup(root), no element at or under root that
\* carries an event-binding has a listener or a listener-table entry, and
\* a click on it changes no Cell state.
C6_CleanupDetaches ==
  last.op = "Signal.cleanup" =>
    \A e \in SignalElsAtOrUnder(last.el) :
      /\ ~boundListeners[e].has
      /\ listeners[e] = << >>
      /\ dispatchEvent(World, e, "click").cellStates = cellStates
      /\ dispatchEvent(World, e, "click").cellIdStates = cellIdStates

\* C6 witness: cleanup over the outer cell removed the listener of a button
\* that had been clicked before.
C6_Witness ==
  /\ last.op = "Signal.cleanup"
  /\ last.el = "cO"
  /\ last.preListeners["bO"] # << >>
  /\ listeners["bO"] = << >>
  /\ cellStates["cO"].v["count"].v > 0

\* C7: updateBindings(cell) changes the text, the display style and the
\* bound attribute of no element whose nearest enclosing Cell is another
\* cell (outer against inner and inner against outer).
C7_NestedIsolation ==
  [][ last'.op = "Signal.updateBindings" =>
        \A e \in Elems :
          (e \in inDom /\ findParentCell(e) # last'.el)
          => /\ text'[e] = text[e]
             /\ display'[e] = display[e]
             /\ title'[e] = title[e] ]_vars

\* C7 witness: the outer cell's bindings were refreshed while the inner
\* cell, bound to the same expression, shows another value.
C7_Witness ==
  /\ last.op = "Signal.updateBindings"
  /\ last.el = "cO"
  /\ text["tO"] = "1"
  /\ text["tI"] = "2"
  /\ title["tO"] = "1"
  /\ title["tI"] = "2"

(***************************************************************************)
(* Claims checked under SpecPulse                                          *)
(***************************************************************************)
\* Request r is in flight and was followed by a request for the same
\* target: the pending entry of its target is no longer its own.
Superseded(r) ==
  /\ InFlight(reqs[r])
  /\ contexts[reqs[r].target] # r
  /\ \E q \in ReqIds : q > r /\ reqs[q].pc # "idle"

\* The document apart from the events of the current step
pageVars == << inDom, order, sigAttr, cellStates, cellIdStates, boundListeners,
               listeners, text, display, title >>

\* C2: a request for target T that was followed, while in flight (awaiting
\* fetch or awaiting the body), by another request for T never applies its
\* response: no step of it changes the document.
C2_SupersededNeverApplied ==
  [][ \A r \in ReqIds :
        (Superseded(r) /\ reqs'[r] # reqs[r]) => UNCHANGED pageVars ]_vars

\* What holds of a superseded request: when its fetch or the reading of
\* its body rejects, it ends without pulse:end and leaves the document as
\* it is.
SupersededRejectionIsSilent ==
  [][ \A r \in ReqIds :
        (Superseded(r) /\ last'.op \in {"fetch:reject", "text:reject"}
           /\ last'.el = r)
        => /\ reqs'[r].ends = 0
           /\ reqs'[r].errors = 0
           /\ UNCHANGED pageVars ]_vars

\* A superseded request whose body arrived has been through the
\* application of its response and changed the listeners under its target
SupersededWasApplied ==
  /\ last.op = "apply"
  /\ last.el = 1
  /\ reqs[1].cancelled
  /\ reqs[2].pc # "idle"
  /\ listeners["bA"] = << >>

\* C3: for each target selector, every in-flight request that is not
\* cancelled owns the pending entry of its selector, so there is at most one
\* and every other in-flight request for the selector is older and cancelled.
C3_OneLiveRequestPerTarget ==
  \A r \in ReqIds :
    (InFlight(reqs[r]) /\ ~reqs[r].cancelled)
    => /\ contexts[reqs[r].target] = r
       /\ \A q \in ReqIds :
            (q # r /\ InFlight(reqs[q]) /\ reqs[q].target = reqs[r].target)
            => (q < r /\ reqs[q].cancelled)

\* C3 witness: an older, cancelled request has just finished while the
\* newer request for the same selector is in flight and keeps its entry.
C3_Witness ==
  /\ last.op \in {"fetch:reject", "text:reject"}
  /\ last.el = 1
  /\ reqs[1].pc = "done"
  /\ reqs[1].cancelled
  /\ InFlight(reqs[2])
  /\ ~reqs[2].cancelled
  /\ contexts[reqs[2].target] = 2

\* C4: a request cancelled by a newer request for its target ends without
\* a pulse:error event and without a logged error, and its promise is
\* resolved.
C4_CancelledEndsSilently ==
  \A r \in ReqIds :
    (reqs[r].pc = "done" /\ reqs[r].cancelled)
    => /\ reqs[r].errors = 0
       /\ reqs[r].logs = 0
       /\ reqs[r].promise = "resolved"

\* C4 witness: a cancelled request whose fetch rejected has ended.
C4_Witness ==
  /\ last.op = "fetch:reject"
  /\ reqs[last.el].pc = "done"
  /\ reqs[last.el].cancelled
  /\ reqs[last.el].outcome = "silent"

\* A step that applied a Patch, through sendPulse or through Surf.applyPatch
PatchApplied(l) == l.op \in {"apply", "Surf.applyPatch"} /\ isPatch(l.body)

\* The document after the Patch application of step l to the regions given
PatchEffect(l, w, patches) ==
  IF l.op = "apply" THEN applyPatches(w, patches).w
  ELSE applyPatchEach(w, patches).w

\* The regions of a Patch whose target matches an element
Resolvable(w, patches) ==
  SelectSeq(patches, LAMBDA p : querySelector(w, p.target) # Null)

\* C8: when a Patch with a region whose target matches no element has been
\* applied, the document is as it was before.
C8_AllOrNothing ==
  [][ (PatchApplied(last')
         /\ \E i \in DOMAIN parse(last'.body) :
              querySelector(World, parse(last'.body)[i].target) = Null)
      => UNCHANGED pageVars ]_vars

\* What holds of a Patch with unmatched regions: a region whose target
\* matches no element stops nothing, the Patch leaves the document as the
\* same Patch without that region leaves it, and a response Patch whose
\* first region is unmatched reports it by a warning.
UnmatchedRegionSkipped ==
  [][ PatchApplied(last')
      => \E patches \in { parse(last'.body) } :
         \E w \in { PatchEffect(last', World, Resolvable(World, patches)) } :
            /\ inDom' = w.inDom
            /\ order' = w.order
            /\ sigAttr' = w.sigAttr
            /\ cellStates' = w.cellStates
            /\ cellIdStates' = w.cellIdStates
            /\ boundListeners' = w.boundListeners
            /\ listeners' = w.listeners
            /\ text' = w.text
            /\ display' = w.display
            /\ title' = w.title
            /\ (last'.op = "apply"
                  /\ querySelector(World, Head(patches).target) = Null
                  => [name |-> "console.warn", el |-> Head(patches).target]
                       \in { emitted'[i] : i \in DOMAIN emitted' }) ]_vars

\* A Patch whose first region matches nothing and whose second region
\* targets the side region was applied; the listeners under the side
\* region were detached.
UnmatchedThenSideApplied ==
  /\ PatchApplied(last)
  /\ last.op = "apply"
  /\ parse(last.body) = << Region("#gone", "B"), Region("#side", "S") >>
  /\ listeners["bS"] = << >>
  /\ [name |-> "console.warn", el |-> "#gone"] \in { emitted[i] : i \in DOMAIN emitted }

(***************************************************************************)
(* Claims checked under SpecAction                                         *)
(***************************************************************************)
\* C11: the body of an action pulse triggered from an element inside a
\* Cell has the keys of the Cell state and of the element's data-*
\* attributes; a key of a data-* attribute has the attribute's value, every
\* other key has the value of the Cell state.
C11_ExplicitAttributesWin ==
  (last.op = "handleClick" /\ findParentCell(last.src) # Null) =>
    LET data == DataAttrs[last.src]
        cellState == cellStates[findParentCell(last.src)].v
    IN /\ DOMAIN last.body = (DOMAIN data) \cup (DOMAIN cellState)
       /\ \A k \in DOMAIN last.body :
            last.body[k] = IF k \in DOMAIN data THEN data[k] ELSE cellState[k]

\* The body as handleClick builds it: on a key held by both, the value of
\* the Cell state is the one sent.
ActionBodyCellStateWins ==
  (last.op = "handleClick" /\ findParentCell(last.src) # Null) =>
    LET data == DataAttrs[last.src]
        cellState == cellStates[findParentCell(last.src)].v
    IN /\ DOMAIN last.body = (DOMAIN data) \cup (DOMAIN cellState)
       /\ \A k \in DOMAIN last.body :
            last.body[k] = IF k \in DOMAIN cellState THEN cellState[k] ELSE data[k]

(***************************************************************************)
(* Further claims checked under SpecPulse                                  *)
(***************************************************************************)
\* C12: when the fetch of a request that was not cancelled rejects, or
\* resolves with a status that is not ok, the request emits pulse:error
\* once and logs it, emits no pulse:end, leaves the document unchanged, and
\* its promise is rejected.
C12_FailureSurfacedOnce ==
  [][ (last'.op \in {"fetch:reject", "fetch:notok"}
         /\ ~reqs[last'.el].cancelled)
      => /\ reqs'[last'.el].pc = "done"
         /\ reqs'[last'.el].errors = 1
         /\ reqs'[last'.el].logs = 1
         /\ reqs'[last'.el].ends = 0
         /\ reqs'[last'.el].promise = "rejected"
         /\ UNCHANGED pageVars ]_vars

\* C12 witness: the fetch of a request that was never cancelled resolved
\* with a status that is not ok, and the request has ended in error.
C12_Witness ==
  /\ last.op = "fetch:notok"
  /\ ~reqs[last.el].cancelled
  /\ reqs[last.el].outcome = "error"
  /\ reqs[last.el].errors = 1
  /\ reqs[last.el].promise = "rejected"

(***************************************************************************)
(* Claims checked under SpecEvents                                         *)
(***************************************************************************)
\* The invocations expected of an emit: every listener of the list, once,
\* in the order of the list, with the detail given
Fanout(list, detail) ==
  [i \in 1..Len(list) |-> [cb |-> list[i], detail |-> detail]]

\* C13: emit(name, detail) invokes every listener that was registered for
\* name when emit was called, once each and in registration order, also
\* when a listener calls off on itself during the fan-out.
C13_EveryListenerInvoked ==
  last.op = "Events.emit" => evCalls = Fanout(last.pre, last.arg)

\* emit invokes every registered listener in order when no listener
\* unregisters during the fan-out.
EmitFanoutWithoutOff ==
  (last.op = "Events.emit" /\ evListeners[last.el].v = last.pre)
    => evCalls = Fanout(last.pre, last.arg)

\* The list of an emit with every throwing callback replaced by one that
\* returns
Quiet(list) == [i \in 1..Len(list) |-> IF list[i] = "t" THEN "p" ELSE list[i]]

\* The callbacks invoked, without the detail
CalledOf(calls) == [i \in 1..Len(calls) |-> calls[i].cb]

\* C14: a listener that throws during emit is caught and logged once, emit
\* does not throw, and the fan-out goes on as if the listener had returned:
\* the listeners invoked after it, all with the same detail, are those
\* invoked when it returns normally.
C14_ThrowDoesNotStopFanout ==
  last.op = "Events.emit" =>
    LET quiet == emit([evListeners EXCEPT ![last.el] =
                         [has |-> last.pre # << >> \/ @.has, v |-> Quiet(last.pre)]],
                      last.el, last.arg)
    IN /\ ~last.threw
       /\ Quiet(CalledOf(evCalls)) = CalledOf(quiet.calls)
       /\ \A i \in DOMAIN evCalls : evCalls[i].detail = last.arg
       /\ evLogs = Cardinality({ i \in DOMAIN evCalls : evCalls[i].cb = "t" })

\* C14 witness: the first of three listeners threw; it was logged and the
\* two listeners registered after it were invoked with the detail.
C14_Witness ==
  /\ last.op = "Events.emit"
  /\ last.pre = << "t", "p", "u" >>
  /\ evLogs = 1
  /\ evCalls = Fanout(last.pre, last.arg)

(***************************************************************************)
(* Claims checked under SpecPatch                                          *)
(***************************************************************************)
\* C15: for any non-empty list of {target, content} pairs,
\* parse(create(pairs)) is the same list of pairs.
C15_RoundTrip ==
  last.op = "Patch.parse(Patch.create)" => last.parsed = last.pairs

\* A target without double quote and without ampersand
PlainTarget(target) ==
  /\ target # << >>
  /\ \A i \in DOMAIN target : target[i] \notin {"\"", "&"}

\* Content that holds no template and no surface element and no text with
\* an ampersand that stands for itself
PlainContent(content) ==
  \A i \in DOMAIN content :
    /\ content[i].k = "open" => content[i].tag \notin {"template", "surface"}
    /\ content[i].k = "text" => EscapeText(DecodeRefs(content[i].s)) = content[i].s

\* What holds of the round trip: parse(create(pairs)) is the same list of
\* pairs when every target is non-empty and free of double quotes and
\* ampersands and every content is plain.
RoundTripOfPlainPairs ==
  (last.op = "Patch.parse(Patch.create)"
     /\ \A i \in DOMAIN last.pairs :
          PlainTarget(last.pairs[i].target) /\ PlainContent(last.pairs[i].content))
  => last.parsed = last.pairs

\* Two pairs, one with element content, were recovered in order.
PlainPairsRecovered ==
  /\ last.op = "Patch.parse(Patch.create)"
  /\ last.pairs = << Pair(<< "#", "m", "a", "i", "n" >>,
                          << OpenTag("b", << >>), TextTok(<< "b", "o", "l", "d" >>),
                             CloseTag("b") >>),
                     Pair(<< "#", "s", "i", "d", "e" >>,
                          << TextTok(<< "W", "o", "r", "l", "d" >>) >>) >>
  /\ last.parsed = last.pairs

\* A target with double quotes came back cut at the first of them.
QuotedTargetCut ==
  /\ last.op = "Patch.parse(Patch.create)"
  /\ last.pairs = << Pair(<< "[", "a", "=", "\"", "b", "\"", "]" >>,
                          << TextTok(<< "W", "o", "r", "l", "d" >>) >>) >>
  /\ last.parsed = << Pair(<< "[", "a", "=" >>,
                           << TextTok(<< "W", "o", "r", "l", "d" >>) >>) >>

\* A target with the reference &amp; came back with a bare ampersand.
ReferenceInTargetDecoded ==
  /\ last.op = "Patch.parse(Patch.create)"
  /\ last.pairs = << Pair(<< "a", "&", "a", "m", "p", ";", "b" >>, << >>) >>
  /\ last.parsed = << Pair(<< "a", "&", "b" >>, << >>) >>

(***************************************************************************)
(* Claims checked under SpecState                                          *)
(***************************************************************************)
\* The path a button's statement assigns to
AssignedPath(e) == Split(StmtForm(SignalParts(sigAttr[e])[1].action).prop)

DottedButtons ==
  { e \in SignalElsInDom :
      SignalParts(sigAttr[e]) # << >> /\ Len(AssignedPath(e)) > 1 }

RECURSIVE SiblingsKept(_, _, _, _)
\* From level i of the path on, every key of pre beside the path is a key
\* of post with the same value.
SiblingsKept(pre, post, keys, i) ==
  IF i > Len(keys) \/ pre.t # "object" THEN TRUE
  ELSE /\ post.t = "object"
       /\ \A k \in (DOMAIN pre.o) \ {keys[i]} :
            k \in DOMAIN post.o /\ post.o[k] = pre.o[k]
       /\ SiblingsKept(Member(pre, keys[i]), Member(post, keys[i]), keys, i + 1)

\* C16: a click on a button whose statement assigns to a dotted path
\* leaves, at every level of the path, all sibling keys of the Cell state
\* with their values.
C16_SiblingKeysKept ==
  [][ \A e \in DottedButtons :
        (last'.op = "click" /\ last'.el = e)
        => SiblingsKept(Obj(cellStates[findParentCell(e)].v),
                        Obj(cellStates'[findParentCell(e)].v),
                        AssignedPath(e), 1) ]_vars

\* C16 witness: user.stats.wins was raised by a click while user.name,
\* user.score, user.stats.level, a and b kept their seed values.
C16_Witness ==
  /\ last.op = "click" /\ last.el = "bUw"
  /\ cellStates["cU"].has
  /\ cellStates["cU"].v =
       [ a |-> Num(1), b |-> Num(1),
         user |-> Obj([ name |-> Str("test"), score |-> Num(0),
                        stats |-> Obj([wins |-> Num(1), level |-> Num(1)]) ]) ]

\* C17: setState(element, partial) yields a state whose top-level keys are
\* those of the previous state and of partial, each key of partial with
\* partial's value and every other key with its previous value.
C17_ShallowMerge ==
  [][ \A e \in Elems :
        (last'.op \in {"Cell.setState", "Surf.setState"} /\ last'.el = e)
        => LET previous == getStateV(World, e)
               partial == last'.partial
               state == cellStates'[e].v
           IN /\ cellStates'[e].has
              /\ DOMAIN state = (DOMAIN previous) \cup (DOMAIN partial)
              /\ \A k \in DOMAIN partial : state[k] = partial[k]
              /\ \A k \in (DOMAIN previous) \ (DOMAIN partial) :
                   state[k] = previous[k] ]_vars

\* C17 witness: {b: 2} was set on a state with a = 1 and b = 1, and the
\* state has a = 1 and b = 2.
C17_Witness ==
  /\ last.op = "Cell.setState" /\ last.el = "cU"
  /\ last.partial = [b |-> Num(2)]
  /\ cellStates["cU"].v["a"] = Num(1)
  /\ cellStates["cU"].v["b"] = Num(2)
  /\ "user" \in DOMAIN cellStates["cU"].v

(***************************************************************************)
(* Claims checked under SpecForm                                           *)
(***************************************************************************)
ResetPending(f) == \E i \in 1..Len(timers) : timers[i] = ResetCallback(f)

\* C18: the dispatch of a submit event on a form with "submit: reset" or
\* "submit: this.reset()", and of a click on a button with "click: reset",
\* leaves the field of the form as it was and hands the reset to a timer;
\* the commit triggered by the same submit event sends the value the field
\* had before the dispatch; and a reset handed to a timer is eventually
\* performed.
C18_ResetDeferred ==
  /\ [][ /\ \A f \in {"fR", "fT"} :
              (last'.op = "submit" /\ last'.el = f)
              => /\ values'[f] = values[f]
                 /\ timers' = Append(timers, ResetCallback(f))
                 /\ last'.sent.params = "msg=" \o values[f]
         /\ (last'.op = "click" /\ last'.el = "bR")
              => /\ values'["fR"] = values["fR"]
                 /\ timers' = Append(timers, ResetCallback("fR")) ]_vars
  /\ \A f \in {"fR", "fT"} :
       ResetPending(f) ~> (last.op = "timer" /\ last.el = f
                             /\ values[f] = DefaultValue)

\* C18 witness: form fR was submitted with the value x in its field, the
\* commit sent x, the field still holds x and the reset is pending.
C18_Witness ==
  /\ last.op = "submit" /\ last.el = "fR"
  /\ last.sent.url = "/save?msg=x"
  /\ values["fR"] = "x"
  /\ ResetPending("fR")

(***************************************************************************)
(* Claims checked under SpecHistory                                        *)
(***************************************************************************)
\* The step ends the call of sendPulse of request r, a navigate to url
\* and target
EndsNavigate(r, url, target) ==
  /\ InFlight(reqs[r])
  /\ reqs[r].kind = "navigate"
  /\ reqs[r].url = url
  /\ reqs[r].target = target
  /\ reqs'[r].pc \in {"resume", "done"}

\* The step is the rest of navigate after its await, for request r, a
\* navigate to url and target
ResumesNavigate(r, url, target) ==
  /\ reqs[r].pc = "resume"
  /\ reqs[r].kind = "navigate"
  /\ reqs[r].url = url
  /\ reqs[r].target = target
  /\ reqs'[r].pc = "done"

\* The step is taken by pulse.js on behalf of a request
RequestStep == last'.op \notin {"pushState", "popstate"}

\* C19: a step of a request changes the history only when it is the rest
\* of a navigate whose response was applied, and then it replaces the
\* current entry when the url is the current location and pushes an entry
\* otherwise, the entry recording the url and the target; a navigate whose
\* request ends in failure leaves the history as it was: the step that
\* ends it changes nothing and no history write follows.
C19_HistoryAfterAppliedResponse ==
  [][ RequestStep =>
        /\ (<< hist, histAt >> # << hist', histAt' >>)
             => \E r \in ReqIds, u \in Urls, t \in Targets :
                  /\ ResumesNavigate(r, u, t)
                  /\ reqs[r].outcome = "end"
                  /\ hist' = (IF loc = u
                              THEN replaceState(hist, histAt, SurfEntry(u, t))
                              ELSE pushState(hist, histAt, SurfEntry(u, t))).hist
        /\ \A r \in ReqIds, u \in Urls, t \in Targets :
             (EndsNavigate(r, u, t) /\ reqs'[r].outcome # "end")
             => /\ << hist, histAt >> = << hist', histAt' >>
                /\ reqs'[r].pc = "done" ]_vars

\* What holds of navigate: a step of a request changes the history only
\* when it is the rest of a navigate whose promise resolved, which is the
\* case after the response was handled and also after the request was
\* cancelled; the entry written is as C19 says, against the location at
\* the time of the write; a navigate that ends with pulse:error leaves the
\* history as it was.
NavigateWritesWhenResolved ==
  [][ RequestStep =>
        /\ (<< hist, histAt >> # << hist', histAt' >>)
             => \E r \in ReqIds, u \in Urls, t \in Targets :
                  /\ ResumesNavigate(r, u, t)
                  /\ reqs[r].outcome \in {"end", "silent"}
                  /\ hist' = (IF loc = u
                              THEN replaceState(hist, histAt, SurfEntry(u, t))
                              ELSE pushState(hist, histAt, SurfEntry(u, t))).hist
        /\ \A r \in ReqIds, u \in Urls, t \in Targets :
             /\ EndsNavigate(r, u, t)
                  => /\ << hist, histAt >> = << hist', histAt' >>
                     /\ reqs'[r].pc = "resume"
                          <=> reqs'[r].outcome \in {"end", "silent"} ]_vars

\* A cancelled navigate to /b wrote a history entry although nothing of
\* its response was applied.
CancelledNavigateWroteHistory ==
  /\ last.op = "navigate:history"
  /\ reqs[last.el].cancelled
  /\ reqs[last.el].outcome = "silent"
  /\ hist[histAt] = SurfEntry("/b", "#main")

\* The step ends the call of sendPulse of request r, which replays a
\* history entry
EndsReplay(r) ==
  /\ InFlight(reqs[r])
  /\ reqs[r].kind = "popstate"
  /\ reqs'[r].pc \in {"resume", "done"}

\* C20: popstate on an entry with the marker starts a GET request for the
\* url of the entry and its target, html when it has none, by a call of
\* sendPulse that no history write follows, and neither that step nor the
\* end of the request pushes or replaces an entry;
\* popstate on an entry without the marker reloads the page and leaves no
\* request issued.
C20_PopStateReplays ==
  [][ /\ \A i \in 1..Len(hist) :
           (last'.op = "popstate" /\ histAt' = i /\ histAt # i)
           => IF hist[i].surf
              THEN /\ ~last'.reload
                   /\ last'.method = "GET"
                   /\ reqs[last'.el].pc = "idle"
                   /\ reqs'[last'.el].pc = "fetch"
                   /\ reqs'[last'.el].kind = "popstate"
                   /\ reqs'[last'.el].url = hist[i].url
                   /\ reqs'[last'.el].target =
                        (IF hist[i].target # "" THEN hist[i].target ELSE "html")
                   /\ hist' = hist
              ELSE /\ last'.reload
                   /\ \A r \in ReqIds : reqs'[r].pc = "idle"
      /\ \A r \in ReqIds :
           EndsReplay(r) => /\ << hist, histAt >> = << hist', histAt' >>
                            /\ reqs'[r].pc = "done" ]_vars

\* C20 witness: the replay of an entry for /b and #gone ended with its
\* response handled, and the history still is the three entries it was,
\* the current one being the first.
C20_Witness ==
  /\ last.op = "apply"
  /\ reqs[last.el].kind = "popstate"
  /\ reqs[last.el].outcome = "end"
  /\ Len(hist) = 3
  /\ histAt = 1

(***************************************************************************)
(* Claims checked under SpecClicks                                         *)
(***************************************************************************)
\* The statement of the one signal of a button
StatementOf(e) == StmtForm(SignalParts(SignalAttrInit[e])[1].action)

\* C21: a firing of count = Math.min(count + N, M) leaves count at most M
\* and a firing of count = Math.max(count - N, M) leaves count at least M,
\* whatever number the counter held before and however many firings came
\* before; Math.min(count + 10, 5) on count 0 leaves 5.
C21_ClampHolds ==
  [][ (last'.op = "click" /\ StatementOf(last'.el).form \in {"min", "max"})
      => LET f == StatementOf(last'.el)
             held == cellStates["cM"].v["count"].v
             now == cellStates'["cM"].v["count"]
         IN /\ now.t = "number"
            /\ f.form = "min" => now.v <= f.lim
            /\ f.form = "max" => now.v >= f.lim
            /\ (f.form = "min" /\ held + f.num >= f.lim) => now.v = f.lim
            /\ (f.form = "max" /\ held - f.num <= f.lim) => now.v = f.lim
            /\ (last'.el = "bMa" /\ held = 0) => now.v = 5 ]_vars

\* C21 witness: the counter, set above the upper limit, was brought down to
\* the limit by a clamped increment.
C21_Witness ==
  /\ last.op = "click"
  /\ last.el = "bMb"
  /\ last.held = Num(7)
  /\ cellStates["cM"].v["count"] = Num(2)

\* C22: in the cell seeded with count: 0 that holds an element bound by
\* d-text="count" and a button with d-signal="click: count = count + 1",
\* after n clicks on the button the state of the cell has count = n and
\* the text of the bound element is the string form of n; one click
\* yields "1".
C22_ClicksCounted ==
  /\ CellAttr["cA"] = "count: 0"
  /\ TextAttr["tA"] = "count"
  /\ SignalAttrInit["bA"] = "click: count = count + 1"
  /\ cellStates["cA"].v = [count |-> Num(last.clicks)]
  /\ text["tA"] = ToString(last.clicks)
  /\ last.clicks = 1 => text["tA"] = "1"

\* C22 witness: the button was clicked three times and the bound text
\* reads "3".
C22_Witness ==
  /\ last.op = "click"
  /\ last.el = "bA"
  /\ last.clicks = 3
  /\ text["tA"] = "3"

(***************************************************************************)
(* Claims checked under SpecPlugins                                        *)
(***************************************************************************)
\* C23: over any sequence of Surf.use calls, plugin.install is called at
\* most once per plugin name, and every call of Surf.use returns the
\* facade.
C23_InstallOncePerName ==
  /\ \A n \in PluginNames : installs[n].calls <= 1
  /\ last.op = "Surf.use" => last.returned = "Surf"

\* C23 as amended: per plugin name at most one call of plugin.install
\* returns, and once one has returned no further call is made; the list
\* holds at most one entry per name; a call of Surf.use returns the facade
\* unless the install it called threw, in which case nothing is
\* registered and the exception leaves Surf.use.
C23_InstallOncePerRegisteredName ==
  /\ \A n \in PluginNames :
       /\ installs[n].returned <= 1
       /\ installs[n].returned = 1 <=> Registered(plugins, n)
       /\ Cardinality({ i \in DOMAIN plugins : plugins[i].name = n }) <= 1
  /\ last.op = "Surf.use"
     => /\ last.returned = "Surf" <=> ~last.threw
        /\ last.threw => last.called /\ last.plugin.install = "may throw"
        /\ last.threw => ~Registered(plugins, PluginName(last.plugin))
        /\ last.plugin.install = "none" => ~last.called

\* C23 witness: a second plugin object with the name of a registered one
\* was handed to Surf.use, which returned the facade without calling its
\* install.
C23_Witness ==
  /\ last.op = "Surf.use"
  /\ last.el = "test2"
  /\ ~last.called
  /\ last.returned = "Surf"
  /\ installs["TestPlugin"] = [calls |-> 1, returned |-> 1]
  /\ Registered(plugins, "TestPlugin")

(***************************************************************************)
(* Claims checked under SpecSwap                                           *)
(***************************************************************************)
\* C24: when a response that is no Patch is applied for a request whose
\* swap mode is outer and whose target matches an element, that element
\* is no longer in the document afterwards.
C24_OuterReplacesTarget ==
  [][ (/\ last'.op = "apply"
       /\ ~isPatch(last'.body)
       /\ querySelector(World, reqs[last'.el].target) # Null
       /\ swapModeOf(reqs[last'.el].swap,
                     querySelector(World, reqs[last'.el].target)) = "outer")
      => querySelector(World, reqs[last'.el].target) \notin inDom' ]_vars

\* With swap mode outer the callback handed to withPreservation is the
\* one of swap mode inner, and it keeps the target in the document.
OuterSwapsAsInner ==
  \A s \in Surfaces, h \in {"B", "S", ""} :
    /\ SwapFn(s, "outer", h) = SwapFn(s, "inner", h)
    /\ s \in inDom => s \in Call(World, SwapFn(s, "outer", h)).inDom

(***************************************************************************)
(* Further claims checked under SpecEcho                                   *)
(***************************************************************************)
\* The document is the world w, events of the step aside
PageIs(w) ==
  /\ inDom' = w.inDom
  /\ order' = w.order
  /\ sigAttr' = w.sigAttr
  /\ cellStates' = w.cellStates
  /\ cellIdStates' = w.cellIdStates
  /\ boundListeners' = w.boundListeners
  /\ listeners' = w.listeners
  /\ text' = w.text
  /\ display' = w.display
  /\ title' = w.title

\* The six steps of a preservation pass over root with the callback
\* mutate, each once and in this order: detach the event-bindings under
\* root, snapshot the keyed Cell states under root, call mutate, merge the
\* snapshot into the identity-key store, initialise the Cells under root,
\* bind the event-bindings under root.
SixSteps(w, root, mutate) ==
  LET detached == cleanup(w, root)
      shot == snapshot(detached, root)
      mutated == Call(shot.w, mutate)
      merged == restore(mutated, shot.snap)
      cellsReady == Cell_initAll(merged, root)
  IN Signal_initAll(cellsReady, root)

\* C25: withPreservation(root, mutate) returns, and leaves the document as
\* the six steps leave it.
C25_StepsInOrder ==
  [][ last'.op = "withPreservation/2"
      => /\ ~last'.threw
         /\ \E w \in { SixSteps(World, last'.el, last'.fn) } : PageIs(w) ]_vars

\* The same for the call that passes the callback as third argument
StepsInOrderWithThreeArguments ==
  [][ last'.op = "withPreservation/3"
      => /\ ~last'.threw
         /\ \E w \in { SixSteps(World, last'.el, last'.fn) } : PageIs(w) ]_vars

(***************************************************************************)
(* Further claims checked under SpecPulse: the life of a request           *)
(***************************************************************************)
\* The events of request r so far fit its position: one pulse:start from
\* the call on; neither pulse:end nor pulse:error while it is in flight;
\* once it has ended, exactly one of the three outcomes.
LifecycleOf(rq) ==
  /\ rq.pc = "idle" => (rq.starts = 0 /\ rq.ends = 0 /\ rq.errors = 0)
  /\ rq.pc # "idle" => rq.starts = 1
  /\ InFlight(rq) => (rq.ends = 0 /\ rq.errors = 0 /\ rq.outcome = "none")
  /\ rq.pc = "done"
     => /\ rq.outcome \in {"end", "error", "silent"}
        /\ rq.outcome = "end" <=> (rq.ends = 1 /\ rq.errors = 0)
        /\ rq.outcome = "error" <=> (rq.ends = 0 /\ rq.errors = 1)
        /\ rq.outcome = "silent" <=> (rq.ends = 0 /\ rq.errors = 0)
        /\ rq.outcome = "silent" => rq.cancelled
  /\ rq.ends + rq.errors <= 1

\* C26: every request emits pulse:start when it is issued, before its
\* fetch, and ends in exactly one way: pulse:end, pulse:error, or silently
\* when it was cancelled; pulse:end and pulse:error are never both emitted
\* for a request; pulse:end is emitted only by the step that handled the
\* response of the request, after the response was applied without an
\* exception; and a request that has ended emits nothing more.
C26_OneOutcomePerRequest ==
  /\ [](\A r \in ReqIds : LifecycleOf(reqs[r]))
  /\ [][ \A r \in ReqIds :
           /\ reqs'[r].starts > reqs[r].starts
              => (reqs[r].pc = "idle" /\ reqs'[r].pc = "fetch")
           /\ reqs'[r].ends > reqs[r].ends
              => /\ last'.op = "apply"
                 /\ last'.el = r
                 /\ reqs[r].pc = "text"
                 /\ ~applyResponse(World, last'.body, reqs[r].target,
                                   reqs[r].swap).threw
           /\ reqs[r].pc = "done" => reqs'[r] = reqs[r] ]_vars

\* C26 witness: one request ended with pulse:error and another with
\* pulse:end.
C26_Witness ==
  /\ last.op = "apply"
  /\ reqs[1].pc = "done"
  /\ reqs[1].outcome = "error"
  /\ reqs[2].pc = "done"
  /\ reqs[2].outcome = "end"
  /\ reqs[2].ends = 1

(***************************************************************************)
(* Further claims checked under SpecHistory                                *)
(***************************************************************************)
\* C27: a navigate whose request was cancelled by a newer request for its
\* target neither pushes nor replaces a history entry: the step that ends
\* it changes nothing and no history write follows; the rest of a navigate
\* that was not cancelled, its response handled, leaves the entry of its
\* url as the current entry, at most one entry added: of two such calls
\* only the newer one writes.
C27_CancelledNavigateWritesNoHistory ==
  [][ \A r \in ReqIds, u \in Urls, t \in Targets :
        /\ (EndsNavigate(r, u, t) /\ reqs[r].cancelled)
             => /\ hist' = hist /\ histAt' = histAt /\ loc' = loc
                /\ reqs'[r].pc = "done"
        /\ ResumesNavigate(r, u, t)
             => /\ ~reqs[r].cancelled
                /\ reqs[r].outcome = "end"
                /\ hist'[histAt'] = SurfEntry(u, t)
                /\ Len(hist') <= Len(hist) + 1
                /\ loc' = u ]_vars

(***************************************************************************)
(* Further claims checked under SpecPulse: the regions of a Patch          *)
(***************************************************************************)
\* The document after every region of patches whose target matches an
\* element went through one full preservation pass with Surface.replace as
\* its callback, in the order of the payload, a warning logged for every
\* other region
RECURSIVE EachRegionOnce(_, _)
EachRegionOnce(w, patches) ==
  IF patches = << >> THEN w
  ELSE LET target == Head(patches).target
           surface == querySelector(w, target)
       IN IF surface = Null
          THEN EachRegionOnce(Emit(w, "console.warn", target), Tail(patches))
          ELSE EachRegionOnce(
                 SixSteps(w, surface, ReplaceFn(surface, Head(patches).content)),
                 Tail(patches))

\* C28: the step that handles a Patch response leaves the document as one
\* preservation pass per region whose target matches an element leaves it,
\* the passes in payload order and whatever the target of the request; a
\* region whose target matches nothing is passed over with a warning and
\* the regions after it are applied; the request ends with pulse:end.
C28_EveryResolvableRegionApplied ==
  [][ (last'.op = "apply" /\ isPatch(last'.body))
      => \E patches \in { parse(last'.body) } :
         \E w \in { EachRegionOnce(World, patches) } :
            /\ PageIs(w)
            /\ \A i \in DOMAIN patches :
                 querySelector(World, patches[i].target) = Null
                 => [name |-> "console.warn", el |-> patches[i].target]
                      \in { emitted'[j] : j \in DOMAIN emitted' }
            /\ reqs'[last'.el].outcome = "end" ]_vars

\* Regions whose target matches nothing are passed over with a warning and
\* the request ends with pulse:end when no region matched an element
UnresolvedRegionsOnlyWarn ==
  [][ (last'.op = "apply" /\ isPatch(last'.body)
         /\ Resolvable(World, parse(last'.body)) = << >>)
      => /\ UNCHANGED pageVars
         /\ reqs'[last'.el].outcome = "end" ]_vars

(***************************************************************************)
(* Claims checked under SpecBinding                                        *)
(***************************************************************************)
\* The step refreshed the bindings of a cell
Refreshed(l) == l.op \in {"Signal.updateBindings", "Surf.setState"}

\* The binding Attr of element e, owned by the cell the step refreshed,
\* evaluates to undefined on the state of that cell
UndefinedBinding(e, expr) ==
  /\ e \in inDom
  /\ findParentCell(e) = last'.el
  /\ expr # NoAttr
  /\ evaluate(expr, cellStates'[last'.el].v).t = "undefined"

\* C29: when the bindings of a cell are refreshed, an element whose text
\* binding evaluates to undefined keeps its text, one whose visibility
\* binding evaluates to undefined keeps its display style, and one whose
\* attribute binding evaluates to undefined keeps the attribute.
C29_UndefinedLeavesElement ==
  [][ Refreshed(last')
      => \A e \in Elems :
           /\ UndefinedBinding(e, TextAttr[e]) => text'[e] = text[e]
           /\ UndefinedBinding(e, ShowAttr[e]) => display'[e] = display[e]
           /\ \A i \in DOMAIN AttrParts(AttrAttr[e]) :
                UndefinedBinding(e, AttrParts(AttrAttr[e])[i].expr)
                => title'[e] = title[e] ]_vars

\* What holds: the text and the attribute are kept, and the element of a
\* visibility binding that evaluates to undefined is hidden
UndefinedHidesElement ==
  [][ Refreshed(last')
      => \A e \in Elems :
           /\ UndefinedBinding(e, TextAttr[e]) => text'[e] = text[e]
           /\ UndefinedBinding(e, ShowAttr[e]) => display'[e] = "none"
           /\ \A i \in DOMAIN AttrParts(AttrAttr[e]) :
                UndefinedBinding(e, AttrParts(AttrAttr[e])[i].expr)
                => title'[e] = title[e] ]_vars

(***************************************************************************)
(* Further claims checked under SpecClicks                                 *)
(***************************************************************************)
\* The events of the step with the name given
EmittedNow(name) == { i \in DOMAIN emitted' : emitted'[i].name = name }

\* The click of the step is on a button whose statement assigns to its
\* property the value the cell of the button holds for it already
AssignsHeldValue ==
  /\ last'.op = "click"
  /\ LET cell == findParentCell(last'.el)
         state == cellStates[cell].v
         f == StatementOf(last'.el)
         r == executeAssignment(SignalParts(SignalAttrInit[last'.el])[1].action,
                                state, last'.el)
     IN /\ cell # Null
        /\ ~r.threw
        /\ f.prop \in DOMAIN state
        /\ f.prop \in DOMAIN r.changes
        /\ r.changes[f.prop] = state[f.prop]

\* C30: a click whose assignment leaves the assigned value equal to the
\* value the cell holds calls neither setState nor updateBindings: no
\* cell:change and no signal:update event is emitted.
C30_EqualValueIsSilent ==
  [][ AssignsHeldValue
      => /\ EmittedNow("cell:change") = {}
         /\ EmittedNow("signal:update") = {} ]_vars

\* What holds: a click whose statement yields an assignment emits one
\* cell:change and one signal:update, whether or not the value differs
EveryAssignmentNotifies ==
  [][ last'.op = "click"
      => /\ Cardinality(EmittedNow("cell:change")) = 1
         /\ Cardinality(EmittedNow("signal:update")) = 1 ]_vars

(***************************************************************************)
(* Claims checked under SpecEcho: the events of Cell.init                  *)
(***************************************************************************)
\* The cell:init events of the step for element e
CellInitEvents(e) ==
  { i \in DOMAIN emitted' : emitted'[i] = [name |-> "cell:init", el |-> e] }

\* Cell.init(e) finds a state stored under the identity key of e
ReusesStoredState(e) ==
  getCellId(e) # NoAttr /\ cellIdStates[getCellId(e)].has

\* C31: a call of Cell.init on a cell emits exactly one cell:init event for
\* that element, whether its state is parsed from the seed or is the one
\* stored under its identity key.
C31_InitEmitsOnce ==
  [][ last'.op = "Cell.init"
      => Cardinality(CellInitEvents(last'.el)) = 1 ]_vars

\* What holds: one cell:init event when the state is parsed from the seed,
\* none when the state stored under the identity key is taken, and the
\* element holds that state afterwards
InitEmitsWhenSeeded ==
  [][ last'.op = "Cell.init"
      => \E e \in { last'.el } :
           IF ReusesStoredState(e)
           THEN /\ CellInitEvents(e) = {}
                /\ cellStates'[e] = cellIdStates[getCellId(e)]
           ELSE /\ Cardinality(CellInitEvents(e)) = 1
                /\ cellStates'[e] = Some(parseSeed(CellAttr[e])) ]_vars

(***************************************************************************)
(* Claims checked under SpecEcho: forgetting an identity key               *)
(***************************************************************************)
\* Element e is a keyed cell that the step put into the document while no
\* state was stored under its identity key: the key was forgotten by
\* clearPreserved and nothing was initialised under it since
CreatedUnderForgottenKey(e) ==
  /\ e \notin inDom
  /\ e \in inDom'
  /\ HasCellAttr(e)
  /\ getCellId(e) # NoAttr
  /\ ~cellIdStates[getCellId(e)].has

\* C32: a newly created cell whose identity key was forgotten by
\* clearPreserved starts from its own seed when it is initialised, also
\* when it is created and initialised by a preservation pass.
C32_ForgottenKeyStartsFromSeed ==
  [][ \A e \in Elems :
        (CreatedUnderForgottenKey(e) /\ cellStates'[e].has)
        => cellStates'[e].v = parseSeed(CellAttr[e]) ]_vars

\* What holds: such a cell starts from its seed when the region the pass
\* replaces held no cell with the same identity key
ForgottenKeyStartsFromSeedWithoutHolder ==
  [][ \A e \in Elems :
        (CreatedUnderForgottenKey(e) /\ cellStates'[e].has
           /\ \A c \in CellsInDom : getCellId(c) # getCellId(e))
        => cellStates'[e].v = parseSeed(CellAttr[e]) ]_vars

(***************************************************************************)
(* Claims checked under SpecAssign                                         *)
(***************************************************************************)
\* The step executed statement expr
Executed(expr) == last'.op = "executeAssignment" /\ last'.expr = expr

\* C33: b = a sets b to the value a holds; when the state has no a, b is
\* set to undefined, whatever b held.  The same for other = ghost.
C33_CopySetsTarget ==
  [][ \A f \in { StmtForm("b = a"), StmtForm("other = ghost") } :
        (last'.op = "executeAssignment" /\ StmtForm(last'.expr) = f)
        => /\ ~last'.threw
           /\ DOMAIN last'.changes = { f.prop }
           /\ last'.changes[f.prop] =
                IF f.src \in DOMAIN last'.state
                THEN last'.state[f.src] ELSE Undefined ]_vars

\* What holds: the value is copied when the state has the source key, and
\* the change set is empty when it has not, so that the target keeps
\* what it held
CopyOnlyFromOwnKey ==
  [][ \A f \in { StmtForm("b = a"), StmtForm("other = ghost") } :
        (last'.op = "executeAssignment" /\ StmtForm(last'.expr) = f)
        => /\ ~last'.threw
           /\ IF f.src \in DOMAIN last'.state
              THEN last'.changes = (f.prop :> last'.state[f.src])
              ELSE last'.changes = EmptyState ]_vars

\* The source of the step's statement is missing from the state or holds
\* no number
SourceIsNoNumber(f) ==
  \/ f.src \notin DOMAIN last'.state
  \/ last'.state[f.src].t # "number"

\* C34: prop = path + N yields N and prop = path - N yields -N when the
\* source is missing or holds a value that is no number; on a number they
\* yield the sum and the difference.
C34_NonNumberCountsAsZero ==
  [][ \A expr \in { "total = bonus + 10", "total = bonus - 10",
                    "count = count + 1" } :
        Executed(expr)
        => \E f \in { StmtForm(expr) } :
             /\ ~last'.threw
             /\ DOMAIN last'.changes = { f.prop }
             /\ last'.changes[f.prop] =
                  Num((IF SourceIsNoNumber(f) THEN 0 ELSE last'.state[f.src].v)
                      + (IF f.form = "add" THEN f.num ELSE 0 - f.num)) ]_vars

\* What holds: a source that is missing or falsy counts as 0; a string or
\* an object is concatenated with N by +, a string that reads as a number
\* is converted by -, and - yields NaN on every other string and object;
\* true counts as 1
FalsySourceCountsAsZero ==
  [][ \A expr \in { "total = bonus + 10", "total = bonus - 10",
                    "count = count + 1" } :
        Executed(expr)
        => \E f \in { StmtForm(expr) } :
           \E src \in { IF f.src \in DOMAIN last'.state
                        THEN last'.state[f.src] ELSE Undefined } :
             /\ ~last'.threw
             /\ DOMAIN last'.changes = { f.prop }
             /\ last'.changes[f.prop] =
                  CASE ~Truthy(src) ->
                         Num(IF f.form = "add" THEN f.num ELSE 0 - f.num)
                    [] src.t = "number" ->
                         Num(IF f.form = "add" THEN src.v + f.num
                             ELSE src.v - f.num)
                    [] src.t = "boolean" ->
                         Num(IF f.form = "add" THEN 1 + f.num ELSE 1 - f.num)
                    [] src.t = "string" /\ f.form = "add" ->
                         Str(src.s \o ToString(f.num))
                    [] src.t = "object" /\ f.form = "add" ->
                         Str("[object Object]" \o ToString(f.num))
                    [] src = Str("5") /\ f.form = "sub" -> Num(5 - f.num)
                    [] OTHER -> NaN ]_vars

\* C35: a call of executeAssignment or of evaluate leaves the state object
\* it is given as it was, whatever the depth of the assigned path, and
\* count == 5 evaluates to true on a state whose count is 5, whatever
\* calls came before.
C35_StateObjectNotMutated ==
  [][ last'.op \in {"executeAssignment", "evaluate"}
      => /\ last'.stateAfter = last'.state
         /\ (last'.op = "evaluate" /\ last'.expr = "count == 5"
               /\ last'.state = [count |-> Num(5)])
            => last'.value = Bool(TRUE) ]_vars

\* What holds: evaluate leaves the state object as it was, and so does
\* executeAssignment for paths of one or two keys; count == 5 is true on
\* a state whose count is 5 and false or undefined on no such state
ShallowPathsLeaveState ==
  [][ last'.op \in {"executeAssignment", "evaluate"}
      => /\ (last'.op = "evaluate"
               \/ Len(Split(StmtForm(last'.expr).prop)) < 3)
            => last'.stateAfter = last'.state
         /\ (last'.op = "evaluate" /\ last'.expr = "count == 5")
            => last'.value =
                 Bool("count" \in DOMAIN last'.state
                        /\ last'.state["count"] = Num(5)) ]_vars

(***************************************************************************)
(* Claims checked under SpecEcho: the bindings a refresh reaches           *)
(***************************************************************************)
\* Element e shows what its bindings yield on the state of cell c: the
\* text binding, the visibility binding and the attribute binding, each
\* for a value that is defined
ShowsStateOf(e, c) ==
  \E state \in { cellStates'[c].v } :
    /\ (TextAttr[e] # NoAttr /\ evaluate(TextAttr[e], state).t # "undefined")
       => text'[e] = JsString(evaluate(TextAttr[e], state))
    /\ (ShowAttr[e] # NoAttr /\ evaluate(ShowAttr[e], state).t # "undefined")
       => display'[e] =
            IF Truthy(evaluate(ShowAttr[e], state)) THEN "" ELSE "none"
    /\ \A i \in DOMAIN AttrParts(AttrAttr[e]) :
         evaluate(AttrParts(AttrAttr[e])[i].expr, state).t = "number"
         => title'[e] = JsString(evaluate(AttrParts(AttrAttr[e])[i].expr, state))

\* C36: when the bindings of a cell are refreshed, every element of the
\* document whose nearest enclosing cell is that cell, the root element of
\* the cell included, shows what its bindings yield on the state of the
\* cell.
C36_EveryBindingOfCellRefreshed ==
  [][ Refreshed(last')
      => \A e \in inDom' :
           findParentCell(e) = last'.el => ShowsStateOf(e, last'.el) ]_vars

\* What holds: the same for the elements below the root of the cell
BindingsBelowRootRefreshed ==
  [][ Refreshed(last')
      => \A e \in inDom' :
           (findParentCell(e) = last'.el /\ e # last'.el)
           => ShowsStateOf(e, last'.el) ]_vars

(***************************************************************************)
(* Claims checked under SpecFaulty                                         *)
(***************************************************************************)
\* The listeners the click of the step runs on the element clicked
ClickedListeners == listeners[last'.el]

\* C37: a listener whose statement cannot be executed (a method missing
\* on this or on the event, an unknown module or module method, an object
\* literal that does not parse, a text that is no statement) does not
\* throw and yields an empty change set; a click that runs such listeners
\* only leaves the state of the cell and the document as they were and
\* emits no event.
C37_FaultyStatementIsNoOp ==
  [][ last'.op = "click"
      => /\ \A i \in DOMAIN ClickedListeners :
              ClickedListeners[i].action \in FaultyStatements
              => \E r \in { executeAssignment(
                               ClickedListeners[i].action,
                               cellStates[ClickedListeners[i].cell].v,
                               ClickedListeners[i].el) } :
                   ~r.threw /\ r.changes = EmptyState
         /\ (\A i \in DOMAIN ClickedListeners :
               ClickedListeners[i].action \in FaultyStatements)
            => (UNCHANGED pageVars /\ emitted' = << >>) ]_vars

\* C37 witness: the button, bound to an object literal that does not
\* parse, was clicked while the counter of its cell stood at 1.
C37_Witness ==
  /\ last.op = "click"
  /\ last.el = "bA"
  /\ Len(listeners["bA"]) = 1
  /\ listeners["bA"][1].action = "data = {invalid}"
  /\ cellStates["cA"].v = [count |-> Num(1)]
  /\ text["tA"] = "1"

(***************************************************************************)
(* Claims checked under SpecPlugins: the first use of a plugin object      *)
(***************************************************************************)
\* the plugin object handed to the last Surf.use is an entry of Surf.plugins
LastPluginRegistered ==
  \E i \in DOMAIN plugins : plugins[i].plugin = last.plugin.id

\* C40: every distinct plugin object that has an install function is
\* installed by its first Surf.use call, also when it declares no name:
\* a call of Surf.use for such an object either calls its install or finds
\* the object itself registered by an earlier call.
C40_FirstUseInstalls ==
  (last.op = "Surf.use" /\ last.plugin.install # "none")
    => (last.called \/ LastPluginRegistered)

\* What holds instead: a call of Surf.use that does not call install finds
\* a registered plugin of the same name, which may be another object.
SkippedUseFindsName ==
  (last.op = "Surf.use" /\ last.plugin.install # "none" /\ ~last.called)
    => Registered(plugins, PluginName(last.plugin))

(***************************************************************************)
(* Claims checked under SpecLoader                                         *)
(***************************************************************************)
\* A pulse was started and no pulse is in flight
AllPulsesFinished ==
  /\ \E r \in ReqIds : reqs[r].starts > 0
  /\ \A r \in ReqIds : ~InFlight(reqs[r])

LoaderIdle == topLoader.status = "IDLE" /\ topLoader.active = 0

\* C39: with the top-loader plugin installed, once every started pulse
\* has finished (by success, by error, or cancelled by a newer request)
\* the loader eventually returns to status IDLE with its active counter
\* at 0.
C39_LoaderReturnsToIdle == AllPulsesFinished ~> LoaderIdle

\* What holds instead: when every started pulse has finished, none of
\* them was cancelled and no timer of the loader is pending, the loader is
\* IDLE with its active counter at 0.
LoaderIdleWhenNoneCancelled ==
  ( /\ AllPulsesFinished
    /\ \A r \in ReqIds : ~reqs[r].cancelled
    /\ ~topLoader.timerId
    /\ topLoader.remaining + topLoader.completing + topLoader.fading = 0 )
  => LoaderIdle

(***************************************************************************)
(* Claims checked under SpecRefresh                                        *)
(***************************************************************************)
\* The timers that poll an element of the document
LivePolls ==
  { i \in DOMAIN autoRefresh.polls :
      autoRefresh.polls[i].connected /\ ~autoRefresh.polls[i].cleared }

\* Every d-auto-refresh region of the document has at most one timer, and
\* exactly one once the MutationObserver has delivered its records; the
\* timer runs at the interval of its attribute
OnePollPerRegion ==
  \A e \in inDom :
    AutoRefreshAttr[e] # NoAttr
    => /\ Cardinality({ i \in LivePolls : autoRefresh.polls[i].el = e }) <= 1
       /\ autoRefresh.mutations = << >>
            => Cardinality({ i \in LivePolls : autoRefresh.polls[i].el = e }) = 1
       /\ \A i \in LivePolls :
            autoRefresh.polls[i].el = e
            => autoRefresh.polls[i].interval =
                 (CASE AutoRefreshAttr[e] = "1000" -> 1000
                    [] AutoRefreshAttr[e] = "2000" -> 2000
                    [] OTHER -> 3000)

\* A region has issued `initial` requests when its timer was set and one
\* more for every interval that has elapsed since, once the callback of
\* its timer has run, whatever the other regions did
RequestsFollowClock(initial) ==
  \A i \in LivePolls :
    LET p == autoRefresh.polls[i]
    IN p.requests + (IF p.due THEN 1 ELSE 0)
         = initial + ((autoRefresh.now - p.since) \div p.interval)

\* The requests of all timers
RECURSIVE RequestsOf(_)
RequestsOf(polls) ==
  IF polls = << >> THEN 0
  ELSE Head(polls).requests + RequestsOf(Tail(polls))

\* The page of the test: the regions cA (1000 ms) and cS (2000 ms), both
\* polled since the install at time 0, when every callback that was due
\* has run
TwoRegionsSinceInstall ==
  /\ Len(autoRefresh.polls) = 2
  /\ LivePolls = {1, 2}
  /\ autoRefresh.polls[1].el = "cA" /\ autoRefresh.polls[1].since = 0
  /\ autoRefresh.polls[2].el = "cS" /\ autoRefresh.polls[2].since = 0
  /\ ~autoRefresh.polls[1].due /\ ~autoRefresh.polls[2].due

\* 2 requests at install, 3 after 1000 ms, 5 after 2000 ms
TotalsOfTwoRegions ==
  (TwoRegionsSinceInstall /\ autoRefresh.now <= 2000)
  => RequestsOf(autoRefresh.polls) =
       (CASE autoRefresh.now = 0 -> 2
          [] autoRefresh.now = 1000 -> 3
          [] OTHER -> 5)

\* A timer whose region has left the document issues no further request
RemovedIssuesNoRequest ==
  \A i \in DOMAIN autoRefresh.polls :
    ~autoRefresh.polls[i].connected
    => /\ i \in DOMAIN autoRefresh'.polls
       /\ autoRefresh'.polls[i].requests = autoRefresh.polls[i].requests
       /\ ~autoRefresh'.polls[i].connected

\* C38: on install of the auto-refresh plugin every d-auto-refresh region
\* issues one request immediately and one further request each time its
\* own interval elapses, independently of the other regions (intervals
\* 1000 ms and 2000 ms: 2 requests at install, 3 after 1000 ms, 5 after
\* 2000 ms); a region has at most one timer however often it is scanned
\* again, and a region removed from the document issues no further
\* request.
C38_PollsFromInstall ==
  /\ [](autoRefresh.installed
          => /\ OnePollPerRegion
             /\ RequestsFollowClock(1)
             /\ TotalsOfTwoRegions)
  /\ [][RemovedIssuesNoRequest]_vars

\* C38 as amended: the request at the time the timer is set is issued
\* unless the plugin was installed with the option skipInitial: true, in
\* which case a region issues its first request when its interval has
\* elapsed once; the request of an elapsed interval is issued when the
\* callback of the timer runs; the totals 2, 3 and 5 are those of an
\* install without the option.
C38_PollsUnlessSkipped ==
  /\ [](autoRefresh.installed
          => /\ OnePollPerRegion
             /\ RequestsFollowClock(IF autoRefresh.skipInitial THEN 0 ELSE 1)
             /\ (~autoRefresh.skipInitial => TotalsOfTwoRegions))
  /\ [][RemovedIssuesNoRequest]_vars

\* C38 witness: 2000 ms after an install without options on the page of
\* the test the region cA has issued 3 requests and cS 2; the document was
\* scanned again by the step before.
C38_Witness ==
  /\ autoRefresh.installed /\ ~autoRefresh.skipInitial
  /\ TwoRegionsSinceInstall
  /\ autoRefresh.now = 2000
  /\ autoRefresh.polls[1].requests = 3
  /\ autoRefresh.polls[2].requests = 2
  /\ last.op = "Surf.emit"

\* Time passed while no poll of the region cA was answered: 2000 ms after
\* the install its three requests are all pending.
UnansweredWhileTimePasses ==
  /\ autoRefresh.now = 2000
  /\ TwoRegionsSinceInstall
  /\ autoRefresh.polls[1].requests = 3
  /\ autoRefresh.polls[1].pending = 3

\* A node with the attribute that a script added was removed by the next
\* call, before the callback of the MutationObserver ran.
ReplacedAgainBeforeObserver ==
  /\ last.op = "Surface.replace"
  /\ \E i \in DOMAIN autoRefresh.mutations :
       /\ ~autoRefresh.mutations[i].attached
       /\ AutoRefreshAttr[autoRefresh.mutations[i].node] # NoAttr

\* The observer has scanned after two calls in a row, and the region the
\* second call inserted has its timer.
ObservedAfterTwoCalls ==
  /\ last.op = "MutationObserver"
  /\ autoRefresh.calls = 2
  /\ Len(autoRefresh.polls) = 3
  /\ autoRefresh.polls[3].el = "cB" /\ autoRefresh.polls[3].connected
  /\ ~autoRefresh.polls[1].connected

====
